---- MODULE Spec2Model ----
(***************************************************************************)
(* Mocha study tracker: the session timer, the storage helpers and the     *)
(* popup / service-worker handlers that drive them.                        *)
(*                                                                         *)
(* Time is the JavaScript clock in milliseconds (Date.now()).  An ISO      *)
(* timestamp string is modelled by the millisecond instant it encodes      *)
(* (toISOString keeps milliseconds, so the round trip through a string is  *)
(* exact); a date-only string "YYYY-MM-DD" is modelled by its UTC day      *)
(* number, whose numeric order is the order of the strings.                *)
(* totalPausedDuration is a number of seconds with a fractional part in    *)
(* the source; the model keeps it as the same quantity in milliseconds.    *)
(***************************************************************************)
EXTENDS Integers, Sequences, FiniteSets, TLC

VARIABLES
    now,                    \* Date.now(), ms
    tz,                     \* local time minus UTC, ms
    mocha_goals,            \* chrome.storage.local slots (STORAGE_KEYS)
    mocha_tasks,
    mocha_sessions,
    mocha_active_session,
    mocha_gamification,
    mocha_weekly_progress,
    mocha_settings,
    alarm,                  \* service worker: session timer alarm scheduled
    popup_open,             \* the popup document is loaded
    activeSession,          \* popup globals
    goals,
    tasks,
    timerInterval,
    timerShown,             \* text of #session-bar-timer, in seconds
    pc,                     \* position inside handleStopSession
    finalDuration,          \* locals of handleStopSession
    pointsEarned,
    nextId,                 \* source of fresh record ids
    uninterrupted,          \* history: ms a never-unloaded stopwatch has counted
    stopRec,                \* history: stored record when stop took its duration
    stopAt,                 \* history: the instant stop took its duration
    lastOp,                 \* history: the last handler that ran and its branch
    swActiveSession,        \* service worker: activeSession held by a running
                            \* handleIdleStateChange
    gamification,           \* per context: the call of updatePoints,
                            \* updateStreak or handleWeeklyReset in progress
                            \* and the record it holds
    messages,               \* chrome.runtime messages sent and not yet received
    serial                  \* history: the gamification record that the calls
                            \* written so far give when each runs alone

store == <<mocha_goals, mocha_tasks, mocha_sessions, mocha_active_session,
           mocha_gamification, mocha_weekly_progress, mocha_settings>>
popup == <<popup_open, activeSession, goals, tasks, timerInterval, timerShown,
           pc, finalDuration, pointsEarned>>
hist  == <<uninterrupted, stopRec, stopAt, lastOp>>
running == <<swActiveSession, gamification, messages, serial>>
vars  == <<now, tz, store, alarm, popup, nextId, hist, running>>

\* The JavaScript contexts that run handlers of their own.
Contexts == {"popup", "shop", "worker"}

-----------------------------------------------------------------------------
(* Values *)

Null   == [null |-> TRUE]          \* JavaScript null / undefined for objects
NoTime == -1                       \* null in a timestamp field
NoTask == "null"                   \* null in a taskId field
NoTimer == -1                      \* a timer element that was never written

Max(a, b) == IF a >= b THEN a ELSE b

millisecondsPerSecond == 1000
secondsPerHour == 3600
hoursPerDay == 24
daysPerWeek == 7
MsPerHour == secondsPerHour * millisecondsPerSecond
MsPerDay == hoursPerDay * secondsPerHour * millisecondsPerSecond

POINTS_PER_HOUR == 5
TASK_COMPLETE_BONUS == 5

\* Math.round(n / d) for n >= 0, d > 0: halves round up.
RoundDiv(n, d) == (2 * n + d) \div (2 * d)

-----------------------------------------------------------------------------
(* calculations.js *)

\* calculateElapsedTime(activeSession), evaluated at Date.now() = t.
\* A faulty variant that does not subtract the accumulated paused time.
calculateElapsedTime_keepsPaused(as, t) ==
    IF as = Null THEN 0
    ELSE LET endTime == IF as.pausedAt # NoTime THEN as.pausedAt ELSE t
             activeTime == endTime - as.startTime
         IN  Max(0, activeTime \div millisecondsPerSecond)

\* A faulty variant that measures a paused session up to the current time.
calculateElapsedTime_ignoresPause(as, t) ==
    IF as = Null THEN 0
    ELSE LET activeTime == (t - as.startTime) - as.totalPausedDuration
         IN  Max(0, activeTime \div millisecondsPerSecond)

\* The code computes (endTime - startTime) / 1000 - totalPausedDuration in
\* double precision, with totalPausedDuration the sum of the pauses in
\* seconds.  Where the exact difference is a whole number of seconds k the
\* double can lie just below k, and Math.floor then gives k - 1.
\* FloatShortfall lists the pairs <<endTime - startTime, paused time>>, in
\* ms, for which that happens, among all pairs the specifications of this
\* module reach: 3.816 - 1.816 and 2.816 - 1.816 both give
\* 0.9999999999999998 below the whole number.
FloatShortfall == {<<2816, 1816>>, <<3816, 1816>>}

calculateElapsedTime(as, t) ==
    IF as = Null THEN 0
    ELSE LET endTime == IF as.pausedAt # NoTime THEN as.pausedAt ELSE t
             \* (endTime - startTime) / 1000 - totalPausedDuration, in ms
             activeTime == (endTime - as.startTime) - as.totalPausedDuration
             short == IF <<endTime - as.startTime, as.totalPausedDuration>>
                         \in FloatShortfall
                      THEN 1 ELSE 0
         IN  Max(0, activeTime \div millisecondsPerSecond - short)

\* The service worker's copy subtracts, for a paused session, the time since
\* pausedAt from the time since startTime, again in double precision.
\* SwFloatShortfall lists the triples <<now - startTime, paused time,
\* now - pausedAt>>, in ms, of paused sessions for which the double lies just
\* below the exact whole number of seconds, among the triples the
\* specifications of this module reach: 3.816 - 0 - 1.816 is
\* 1.9999999999999998.  For a session that is not paused the expression is
\* the one of calculations.js.
SwFloatShortfall ==
    {<<3816, 0, 1816>>, <<3816, 1000, 1816>>, <<3816, 1816, 0>>,
     <<4816, 1000, 1816>>}

\* The service worker's own copy of calculateElapsedTime.
swCalculateElapsedTime(as, t) ==
    IF as = Null \/ as.startTime = NoTime THEN 0
    ELSE LET e1 == (t - as.startTime) - as.totalPausedDuration
             e2 == IF as.pausedAt # NoTime THEN e1 - (t - as.pausedAt) ELSE e1
             short ==
                 IF as.pausedAt # NoTime
                 THEN IF <<t - as.startTime, as.totalPausedDuration,
                           t - as.pausedAt>> \in SwFloatShortfall
                      THEN 1 ELSE 0
                 ELSE IF <<t - as.startTime, as.totalPausedDuration>>
                            \in FloatShortfall
                      THEN 1 ELSE 0
         IN  Max(0, e2 \div millisecondsPerSecond - short)

\* Date.getDay() of a UTC day number; day 0 is 1970-01-01, a Thursday.
EpochDayOfWeek == 4
DayOfWeek(day) == (day + EpochDayOfWeek) % daysPerWeek

\* toISOString().split('T')[0]: the UTC day of an instant.
IsoDate(t) == t \div MsPerDay
\* new Date("YYYY-MM-DD"): UTC midnight of the day.
ParseDate(day) == day * MsPerDay
\* The local calendar day of an instant.
LocalDay(t, z) == (t + z) \div MsPerDay
\* Local midnight of a local calendar day, as an instant.
LocalMidnight(day, z) == day * MsPerDay - z

\* A faulty variant without the special case of Sunday in a Monday-start week.
getWeekStart_noSundayCase(t, weekStartDay, z) ==
    LET d    == LocalDay(t, z)
        day  == DayOfWeek(d)
        diff == IF weekStartDay = "monday" THEN day - 1 ELSE day
    IN  LocalMidnight(d - diff, z)

\* getWeekStart(date, weekStartDay): local midnight of the week's first day.
getWeekStart(t, weekStartDay, z) ==
    LET d    == LocalDay(t, z)
        day  == DayOfWeek(d)
        diff == IF weekStartDay = "monday"
                THEN (IF day = 0 THEN 6 ELSE day - 1)
                ELSE day
    IN  LocalMidnight(d - diff, z)

\* getWeekEnd(date, weekStartDay): 23:59:59.999 local, six days later.
getWeekEnd(t, weekStartDay, z) ==
    LET weekStart == getWeekStart(t, weekStartDay, z)
    IN  LocalMidnight(LocalDay(weekStart, z) + 6, z) + MsPerDay - 1

\* getCurrentWeekRange(): date-only strings of the two instants.
getCurrentWeekRange(t, weekStartDay, z) ==
    [start |-> IsoDate(getWeekStart(t, weekStartDay, z)),
     end   |-> IsoDate(getWeekEnd(t, weekStartDay, z))]

RECURSIVE SumInts(_)
\* sum of a sequence of integers (a forEach accumulation)
SumInts(s) == IF s = <<>> THEN 0 ELSE Head(s) + SumInts(Tail(s))

GoalIds(gs) == {gs[i].id : i \in DOMAIN gs}

RECURSIVE SumOver(_, _)
\* sum of f over the keys ids (Object.keys(...).forEach accumulation)
SumOver(f, ids) ==
    IF ids = {} THEN 0
    ELSE LET k == CHOOSE x \in ids : TRUE
         IN  f[k] + SumOver(f, ids \ {k})

\* A faulty variant whose totals also take the sessions and tasks of goals
\* that are not in the list.
calculateWeeklyProgress_countsDangling(ss, ts, gs, weekStart, z) ==
    LET weekEnd == IsoDate(getWeekEnd(ParseDate(weekStart), "monday", z))
        InRange(day) == day >= weekStart /\ day <= weekEnd
        SessIn(s) == InRange(IsoDate(s.startTime))
        TaskIn(t) == t.completed /\ t.completedAt # NoTime
                     /\ InRange(IsoDate(t.completedAt))
        SessSecs(G) == SumInts([i \in DOMAIN ss |->
                          IF SessIn(ss[i]) /\ ss[i].goalId \in G
                          THEN ss[i].duration ELSE 0])
        TaskCount(G) == SumInts([i \in DOMAIN ts |->
                          IF TaskIn(ts[i]) /\ ts[i].goalId \in G THEN 1 ELSE 0])
        Hundredths(secs) == RoundDiv(secs * 100, secondsPerHour)
        all == {ss[i].goalId : i \in DOMAIN ss} \cup {ts[i].goalId : i \in DOMAIN ts}
    IN  [weekStart  |-> weekStart,
         weekEnd    |-> weekEnd,
         goals      |-> [g \in GoalIds(gs) |->
                            [hoursCompleted |-> Hundredths(SessSecs({g})),
                             tasksCompleted |-> TaskCount({g})]],
         totalHours |-> Hundredths(SessSecs(all)),
         totalTasks |-> TaskCount(all)]

\* A faulty variant that adds up the rounded hours of the goals for the
\* total.
calculateWeeklyProgress_sumsRounded(ss, ts, gs, weekStart, z) ==
    LET weekEnd == IsoDate(getWeekEnd(ParseDate(weekStart), "monday", z))
        InRange(day) == day >= weekStart /\ day <= weekEnd
        SessIn(s) == InRange(IsoDate(s.startTime))
        TaskIn(t) == t.completed /\ t.completedAt # NoTime
                     /\ InRange(IsoDate(t.completedAt))
        SessSecs(G) == SumInts([i \in DOMAIN ss |->
                          IF SessIn(ss[i]) /\ ss[i].goalId \in G
                          THEN ss[i].duration ELSE 0])
        TaskCount(G) == SumInts([i \in DOMAIN ts |->
                          IF TaskIn(ts[i]) /\ ts[i].goalId \in G THEN 1 ELSE 0])
        Hundredths(secs) == RoundDiv(secs * 100, secondsPerHour)
    IN  [weekStart  |-> weekStart,
         weekEnd    |-> weekEnd,
         goals      |-> [g \in GoalIds(gs) |->
                            [hoursCompleted |-> Hundredths(SessSecs({g})),
                             tasksCompleted |-> TaskCount({g})]],
         totalHours |-> SumOver([g \in GoalIds(gs) |-> Hundredths(SessSecs({g}))],
                                GoalIds(gs)),
         totalTasks |-> TaskCount(GoalIds(gs))]

\* calculateWeeklyProgress(sessions, tasks, goals, weekStart).  Hours are kept
\* in hundredths: Math.round(hours * 100) / 100 of the exact sum.
calculateWeeklyProgress(ss, ts, gs, weekStart, z) ==
    LET weekEnd == IsoDate(getWeekEnd(ParseDate(weekStart), "monday", z))
        InRange(day) == day >= weekStart /\ day <= weekEnd
        SessIn(s) == InRange(IsoDate(s.startTime))
        TaskIn(t) == t.completed /\ t.completedAt # NoTime
                     /\ InRange(IsoDate(t.completedAt))
        SessSecs(G) == SumInts([i \in DOMAIN ss |->
                          IF SessIn(ss[i]) /\ ss[i].goalId \in G
                          THEN ss[i].duration ELSE 0])
        TaskCount(G) == SumInts([i \in DOMAIN ts |->
                          IF TaskIn(ts[i]) /\ ts[i].goalId \in G THEN 1 ELSE 0])
        Hundredths(secs) == RoundDiv(secs * 100, secondsPerHour)
    IN  [weekStart  |-> weekStart,
         weekEnd    |-> weekEnd,
         goals      |-> [g \in GoalIds(gs) |->
                            [hoursCompleted |-> Hundredths(SessSecs({g})),
                             tasksCompleted |-> TaskCount({g})]],
         totalHours |-> Hundredths(SessSecs(GoalIds(gs))),
         totalTasks |-> TaskCount(GoalIds(gs))]

-----------------------------------------------------------------------------
(* points.js *)

\* A faulty variant that pays the medium bonus for a hard task.
DifficultyBonus_hardAsMedium(d) ==
    IF d = "easy" THEN 5 ELSE IF d = "medium" THEN 10 ELSE IF d = "hard" THEN 10 ELSE 0

\* DIFFICULTY_BONUS[taskDifficulty], 0 for a key it does not have.
DifficultyBonus(d) ==
    IF d = "easy" THEN 5 ELSE IF d = "medium" THEN 10 ELSE IF d = "hard" THEN 15 ELSE 0

\* A faulty variant that drops the fraction instead of rounding.
calculateSessionPoints_truncates(durationSeconds, taskCompleted, taskDifficulty) ==
    LET bonus == IF taskCompleted
                 THEN TASK_COMPLETE_BONUS + DifficultyBonus(taskDifficulty)
                 ELSE 0
    IN  (durationSeconds * POINTS_PER_HOUR) \div secondsPerHour + bonus

\* calculateSessionPoints(durationSeconds, taskCompleted, taskDifficulty)
calculateSessionPoints(durationSeconds, taskCompleted, taskDifficulty) ==
    LET bonus == IF taskCompleted
                 THEN TASK_COMPLETE_BONUS + DifficultyBonus(taskDifficulty)
                 ELSE 0
    IN  RoundDiv(durationSeconds * POINTS_PER_HOUR, secondsPerHour) + bonus

-----------------------------------------------------------------------------
(* models/data-models.js *)

Modes == {"free"}

\* createActiveSession(params) at Date.now() = t.  autoPaused is the property
\* the service worker adds; it is absent (falsy) on a new record.
createActiveSession(goalId, taskId, mode, t) ==
    [goalId |-> goalId,
     taskId |-> taskId,
     startTime |-> t,
     pausedAt |-> NoTime,
     totalPausedDuration |-> 0,
     mode |-> mode,
     pomodorosCompleted |-> 0,
     autoPaused |-> FALSE]

\* A faulty variant that reports the wall time between start and end.
createSession_wallClock(params, id, t) ==
    [id |-> id,
     goalId |-> params.goalId,
     startTime |-> params.startTime,
     endTime |-> IF params.endTime # NoTime THEN params.endTime ELSE t,
     duration |-> ((IF params.endTime # NoTime THEN params.endTime ELSE t)
                      - params.startTime) \div millisecondsPerSecond,
     mode |-> params.mode,
     pomodorosCompleted |-> params.pomodorosCompleted,
     taskId |-> params.taskId,
     taskCompleted |-> params.taskCompleted,
     pointsEarned |-> params.pointsEarned,
     pausedDuration |-> params.pausedDuration,
     isManual |-> params.isManual,
     notes |-> params.notes,
     createdAt |-> t]

\* createSession(params) at Date.now() = t, with a fresh id.
createSession(params, id, t) ==
    [id |-> id,
     goalId |-> params.goalId,
     startTime |-> params.startTime,
     endTime |-> IF params.endTime # NoTime THEN params.endTime ELSE t,
     duration |-> params.duration,
     mode |-> params.mode,
     pomodorosCompleted |-> params.pomodorosCompleted,
     taskId |-> params.taskId,
     taskCompleted |-> params.taskCompleted,
     pointsEarned |-> params.pointsEarned,
     pausedDuration |-> params.pausedDuration,
     isManual |-> params.isManual,
     notes |-> params.notes,
     createdAt |-> t]

createGamification ==
    [totalPoints |-> 0,
     lifetimePoints |-> 0,
     pointsThisWeek |-> 0,
     currentStreak |-> 0,
     longestStreak |-> 0,
     lastStudyDate |-> NoTime]

createSettings == [idleDetection |-> [enabled |-> TRUE], weekStartDay |-> "monday"]

-----------------------------------------------------------------------------
(* storage.js: each operator is the value the helper writes to its slot *)

\* get(key, defaultValue): the stored value, or the default when the read
\* throws.  An absent collection slot is modelled by its default, the empty list.
get(slot, defaultValue, readOk) == IF readOk THEN slot ELSE defaultValue

\* set(key, value): the slot afterwards; a write that throws leaves it as it was.
set(slot, value, writeOk) == IF writeOk THEN value ELSE slot

\* saveSession(session): the list handed to set().
saveSession(slot, session, readOk) == Append(get(slot, <<>>, readOk), session)

\* findIndex / replace-or-push of saveGoal and saveTask.
Upsert(list, rec) ==
    LET hits == {i \in DOMAIN list : list[i].id = rec.id}
    IN  IF hits = {} THEN Append(list, rec)
        ELSE LET existingIndex == CHOOSE i \in hits : \A j \in hits : i <= j
             IN  [list EXCEPT ![existingIndex] = rec]

\* saveGoal(goal): the list handed to set().
saveGoal(slot, goal, readOk) == Upsert(get(slot, <<>>, readOk), goal)

\* saveTask(task): the list handed to set().
saveTask(slot, task, readOk) == Upsert(get(slot, <<>>, readOk), task)

\* getGamification(): the default record when the slot is empty.
getGamification(slot) == IF slot = Null THEN createGamification ELSE slot

\* A faulty variant that lets a deduction take the balance below zero.
updatePoints_noFloor(slot, amount) ==
    LET g == getGamification(slot)
    IN  [g EXCEPT !.totalPoints = g.totalPoints + amount,
                  !.lifetimePoints = IF amount > 0 THEN @ + amount ELSE @,
                  !.pointsThisWeek = IF amount > 0 THEN @ + amount ELSE @]

\* A faulty variant that lets a deduction lower lifetimePoints as well.
updatePoints_lifetimeFollows(slot, amount) ==
    LET g == getGamification(slot)
    IN  [g EXCEPT !.totalPoints = Max(0, g.totalPoints + amount),
                  !.lifetimePoints = @ + amount,
                  !.pointsThisWeek = IF amount > 0 THEN @ + amount ELSE @]

\* updatePoints(amount)
updatePoints(slot, amount) ==
    LET g == getGamification(slot)
    IN  [g EXCEPT !.totalPoints = Max(0, g.totalPoints + amount),
                  !.lifetimePoints = IF amount > 0 THEN @ + amount ELSE @,
                  !.pointsThisWeek = IF amount > 0 THEN @ + amount ELSE @]

\* The lengths a local calendar day can have: a day on which the clocks go
\* forward, an ordinary day, a day on which they go back.
LocalDayLengths == {23 * MsPerHour, 24 * MsPerHour, 25 * MsPerHour}

\* A faulty variant that never raises longestStreak.
updateStreak_keepsLongest(slot, t, localDay) ==
    LET g == getGamification(slot)
        today == IsoDate(t)
        yesterdayStr == IsoDate(t - localDay)
        streak == IF g.lastStudyDate = yesterdayStr THEN g.currentStreak + 1 ELSE 1
    IN  IF g.lastStudyDate = today THEN g
        ELSE [g EXCEPT !.currentStreak = streak,
                       !.lastStudyDate = today]

\* updateStreak() at Date.now() = t.  today is the UTC date of t;
\* yesterday.setDate(yesterday.getDate() - 1) keeps the local wall time and
\* goes back one local calendar day, localDay milliseconds, and yesterdayStr
\* is the UTC date of that instant.
updateStreak(slot, t, localDay) ==
    LET g == getGamification(slot)
        today == IsoDate(t)
        yesterdayStr == IsoDate(t - localDay)
        streak == IF g.lastStudyDate = yesterdayStr THEN g.currentStreak + 1 ELSE 1
    IN  IF g.lastStudyDate = today THEN g
        ELSE [g EXCEPT !.currentStreak = streak,
                       !.longestStreak = Max(g.longestStreak, streak),
                       !.lastStudyDate = today]

\* getSessionsByDateRange(startDate, endDate)
getSessionsByDateRange(ss, startDate, endDate) ==
    SelectSeq(ss, LAMBDA s: s.startTime >= ParseDate(startDate)
                            /\ s.startTime <= ParseDate(endDate))

\* getWeeklyProgress(): null when the cache is absent or of another week.
getWeeklyProgress(slot, t, z) ==
    IF slot = Null THEN Null
    ELSE IF slot.weekStart # getCurrentWeekRange(t, "monday", z).start THEN Null
    ELSE slot

-----------------------------------------------------------------------------
(* The clock *)

\* Monday 1970-01-05 10:00:00.000 UTC
T0 == 4 * MsPerDay + 10 * secondsPerHour * millisecondsPerSecond

\* The instants the clock visits, as offsets from T0 in ms.
ClockOffsets == {0, 700, 3700000, 3800000}
Instants == {T0 + o : o \in ClockOffsets}

TimeZones == {0}

\* Bound: the sessions persisted in one run.  A session is begun, and a stop
\* started, only while fewer are persisted.
MaxSessions == 1

\* Time passes.  The stopwatch of the history counts it while a stored
\* session is running.
Advance ==
    /\ \E t \in Instants : t > now /\ now' = t
    /\ uninterrupted' =
           IF mocha_active_session # Null /\ mocha_active_session.pausedAt = NoTime
           THEN uninterrupted + (now' - now)
           ELSE uninterrupted
    /\ UNCHANGED <<tz, store, alarm, popup, nextId, stopRec, stopAt, lastOp>>
    /\ UNCHANGED running

-----------------------------------------------------------------------------
(* popup.js *)

\* A faulty variant that patches the dates of a record of another week and
\* keeps its counts.
loadWeeklyProgress_patches(slot, ss, ts, gs, t, z) ==
    LET range == getCurrentWeekRange(t, "monday", z)
    IN  IF slot = Null
        THEN calculateWeeklyProgress(
                 getSessionsByDateRange(ss, range.start, range.end),
                 ts, gs, range.start, z)
        ELSE [slot EXCEPT !.weekStart = range.start, !.weekEnd = range.end]

\* loadWeeklyProgress() / reloadGoals(): the value left in the cache slot.
loadWeeklyProgress(slot, ss, ts, gs, t, z) ==
    LET range == getCurrentWeekRange(t, "monday", z)
        cached == getWeeklyProgress(slot, t, z)
    IN  IF cached = Null \/ cached.weekStart # range.start
        THEN calculateWeeklyProgress(
                 getSessionsByDateRange(ss, range.start, range.end),
                 ts, gs, range.start, z)
        ELSE slot

reloadGoals(ss, ts, gs, t, z) ==
    LET range == getCurrentWeekRange(t, "monday", z)
    IN  calculateWeeklyProgress(
            getSessionsByDateRange(ss, range.start, range.end),
            ts, gs, range.start, z)

NotArchived(gs) == SelectSeq(gs, LAMBDA g: ~g.archived)

\* init(): the popup document loads and reads its state from storage.
PopupInit ==
    /\ ~popup_open
    /\ popup_open' = TRUE
    /\ goals' = NotArchived(mocha_goals)
    /\ activeSession' = mocha_active_session
    /\ tasks' = mocha_tasks
    /\ mocha_weekly_progress' =
           loadWeeklyProgress(mocha_weekly_progress, mocha_sessions, mocha_tasks,
                              NotArchived(mocha_goals), now, tz)
    /\ IF mocha_active_session # Null
       THEN /\ timerShown' = calculateElapsedTime(mocha_active_session, now)
            /\ timerInterval' = TRUE
       ELSE UNCHANGED <<timerShown, timerInterval>>
    /\ lastOp' = "init"
    /\ UNCHANGED <<now, tz, mocha_goals, mocha_tasks, mocha_sessions,
                   mocha_active_session, mocha_gamification, mocha_settings,
                   alarm, pc, finalDuration, pointsEarned, nextId,
                   uninterrupted, stopRec, stopAt>>
    /\ UNCHANGED running

\* The popup document is unloaded: every global and pending handler is gone.
PopupClose ==
    /\ popup_open
    /\ popup_open' = FALSE
    /\ activeSession' = Null
    /\ goals' = <<>>
    /\ tasks' = <<>>
    /\ timerInterval' = FALSE
    /\ timerShown' = NoTimer
    /\ pc' = "idle"
    /\ finalDuration' = 0
    /\ pointsEarned' = 0
    /\ lastOp' = "none"
    /\ stopRec' = Null
    /\ stopAt' = NoTime
    /\ UNCHANGED <<now, tz, store, alarm, nextId, uninterrupted>>
    /\ UNCHANGED running

\* The values of #task-select: '' (no task) or the id of a task of the goal.
TaskSelectValues(goalId) ==
    {""} \cup {tasks[i].id : i \in {j \in DOMAIN tasks : tasks[j].goalId = goalId}}

\* handleBeginSession()
handleBeginSession ==
    /\ popup_open /\ pc = "idle"
    /\ Len(mocha_sessions) < MaxSessions
    /\ \E selectedGoalId \in GoalIds(goals), mode \in Modes :
       \E v \in TaskSelectValues(selectedGoalId) :
         LET taskId == IF v = "" THEN NoTask ELSE v
             session == createActiveSession(selectedGoalId, taskId, mode, now)
         IN  /\ mocha_active_session' = session
             /\ activeSession' = session
             /\ uninterrupted' = 0
             /\ timerShown' = calculateElapsedTime(session, now)
    /\ timerInterval' = TRUE
    /\ alarm' = TRUE
    /\ lastOp' = "none"
    /\ UNCHANGED <<now, tz, mocha_goals, mocha_tasks, mocha_sessions,
                   mocha_gamification, mocha_weekly_progress, mocha_settings,
                   popup_open, goals, tasks, pc, finalDuration,
                   pointsEarned, nextId, stopRec, stopAt>>
    /\ UNCHANGED running

\* A faulty variant that replaces the accumulated paused time by the last pause.
ResumeRecord_overwrites(as, t) ==
    [as EXCEPT !.totalPausedDuration = t - as.pausedAt,
               !.pausedAt = NoTime]

\* The resume branch of handlePauseSession applied to a record.
ResumeRecord(as, t) ==
    [as EXCEPT !.totalPausedDuration = @ + (t - as.pausedAt),
               !.pausedAt = NoTime]

\* The pause branch of handlePauseSession applied to a record.
PauseRecord(as, t) == [as EXCEPT !.pausedAt = t]

\* A faulty variant without the guard for a missing session: it stores a
\* paused record.
handlePauseSession_noGuard ==
    /\ popup_open /\ pc = "idle"
    /\ IF activeSession = Null
       THEN /\ lastOp' = "pause_nosession"
            /\ mocha_active_session' =
                   PauseRecord(createActiveSession("g1", NoTask, "free", now), now)
            /\ UNCHANGED <<mocha_goals, mocha_tasks, mocha_sessions,
                           mocha_gamification, mocha_weekly_progress,
                           mocha_settings, activeSession, timerShown,
                           timerInterval, uninterrupted>>
       ELSE IF activeSession.pausedAt # NoTime
       THEN /\ activeSession' = ResumeRecord(activeSession, now)
            /\ timerShown' = calculateElapsedTime(activeSession', now)
            /\ timerInterval' = TRUE
            /\ mocha_active_session' = activeSession'
            /\ UNCHANGED uninterrupted
            /\ lastOp' = "none"
            /\ UNCHANGED <<mocha_goals, mocha_tasks, mocha_sessions,
                           mocha_gamification, mocha_weekly_progress, mocha_settings>>
       ELSE /\ activeSession' = PauseRecord(activeSession, now)
            /\ mocha_active_session' = activeSession'
            /\ UNCHANGED uninterrupted
            /\ lastOp' = "none"
            /\ UNCHANGED <<mocha_goals, mocha_tasks, mocha_sessions,
                           mocha_gamification, mocha_weekly_progress, mocha_settings,
                           timerShown, timerInterval>>
    /\ UNCHANGED <<now, tz, alarm, popup_open, goals, tasks, pc,
                   finalDuration, pointsEarned, nextId, stopRec, stopAt>>
    /\ UNCHANGED running

\* handlePauseSession(): the pause / resume button.
handlePauseSession ==
    /\ popup_open /\ pc = "idle"
    /\ IF activeSession = Null
       THEN /\ lastOp' = "pause_nosession"
            /\ UNCHANGED <<store, activeSession, timerShown, timerInterval,
                           uninterrupted>>
       ELSE IF activeSession.pausedAt # NoTime
       THEN /\ activeSession' = ResumeRecord(activeSession, now)
            /\ timerShown' = calculateElapsedTime(activeSession', now)
            /\ timerInterval' = TRUE
            /\ mocha_active_session' = activeSession'
            /\ UNCHANGED uninterrupted
            /\ lastOp' = "none"
            /\ UNCHANGED <<mocha_goals, mocha_tasks, mocha_sessions,
                           mocha_gamification, mocha_weekly_progress, mocha_settings>>
       ELSE /\ activeSession' = PauseRecord(activeSession, now)
            /\ mocha_active_session' = activeSession'
            /\ UNCHANGED uninterrupted
            /\ lastOp' = "none"
            /\ UNCHANGED <<mocha_goals, mocha_tasks, mocha_sessions,
                           mocha_gamification, mocha_weekly_progress, mocha_settings,
                           timerShown, timerInterval>>
    /\ UNCHANGED <<now, tz, alarm, popup_open, goals, tasks, pc,
                   finalDuration, pointsEarned, nextId, stopRec, stopAt>>
    /\ UNCHANGED running

\* A faulty variant that counts its own calls instead of reading the clock.
TimerIntervalTick_countsTicks ==
    /\ popup_open /\ timerInterval
    /\ IF activeSession = Null \/ activeSession.pausedAt # NoTime
       THEN UNCHANGED timerShown
       ELSE timerShown' = timerShown + 1
    /\ UNCHANGED <<now, tz, store, alarm, popup_open, activeSession, goals, tasks,
                   timerInterval, pc, finalDuration, pointsEarned,
                   nextId, hist>>
    /\ UNCHANGED running

\* The setInterval callback of startTimerDisplay().
TimerIntervalTick ==
    /\ popup_open /\ timerInterval
    /\ IF activeSession = Null \/ activeSession.pausedAt # NoTime
       THEN UNCHANGED timerShown
       ELSE timerShown' = calculateElapsedTime(activeSession, now)
    /\ UNCHANGED <<now, tz, store, alarm, popup_open, activeSession, goals, tasks,
                   timerInterval, pc, finalDuration, pointsEarned,
                   nextId, hist>>
    /\ UNCHANGED running

-----------------------------------------------------------------------------
(* background.js (service worker) *)

\* initialize(): the worker (re)starts and restores the alarm for a session.
initialize ==
    /\ alarm' = (alarm \/ mocha_active_session # Null)
    /\ UNCHANGED <<now, tz, store, popup, nextId, hist>>
    /\ UNCHANGED running

\* A faulty variant that leaves the alarm scheduled when it finds no session.
handleSessionTimerTick_keepsAlarm ==
    /\ alarm
    /\ UNCHANGED <<now, tz, store, alarm, popup, nextId, hist>>
    /\ UNCHANGED running

\* handleSessionTimerTick(): the alarm fires.  Without a stored session the
\* alarm is cleared; otherwise the stored record is only read (TIMER_TICK
\* carries swCalculateElapsedTime of it to a legacy element of the popup).
handleSessionTimerTick ==
    /\ alarm
    /\ alarm' = (mocha_active_session # Null)
    /\ UNCHANGED <<now, tz, store, popup, nextId, hist>>
    /\ UNCHANGED running

IdleStates == {"active", "idle", "locked"}

\* A faulty variant that also forgets the time paused so far.
AutoPauseRecord_dropsPaused(as, t) ==
    [as EXCEPT !.pausedAt = t, !.autoPaused = TRUE, !.totalPausedDuration = 0]

\* The auto-pause of handleIdleStateChange applied to a record.
AutoPauseRecord(as, t) == [as EXCEPT !.pausedAt = t, !.autoPaused = TRUE]

\* handleIdleStateChange(state).  SESSION_AUTO_PAUSED reaches the popup's
\* listener when the popup is open.
handleIdleStateChange ==
    /\ \E state \in IdleStates :
         IF /\ mocha_settings.idleDetection.enabled
            /\ mocha_active_session # Null
            /\ state \in {"idle", "locked"}
            /\ mocha_active_session.pausedAt = NoTime
         THEN /\ mocha_active_session' = AutoPauseRecord(mocha_active_session, now)
              /\ activeSession' = IF popup_open THEN mocha_active_session'
                                  ELSE activeSession
              /\ UNCHANGED uninterrupted
              /\ lastOp' = "none"
         ELSE /\ lastOp' = "none"
              /\ UNCHANGED <<mocha_active_session, activeSession, uninterrupted>>
    /\ UNCHANGED <<now, tz, mocha_goals, mocha_tasks, mocha_sessions,
                   mocha_gamification, mocha_weekly_progress, mocha_settings,
                   alarm, popup_open, goals, tasks, timerInterval, timerShown,
                   pc, finalDuration, pointsEarned, nextId, stopRec,
                   stopAt>>
    /\ UNCHANGED running

-----------------------------------------------------------------------------
(* popup.js: handleStopSession, one action per await it can be cut at *)

Notes == {""}

\* Lines 1133-1137: the interval is cleared and the duration and points taken.
TakeDuration ==
    /\ timerInterval' = FALSE
    /\ finalDuration' = calculateElapsedTime(activeSession, now)
    /\ pointsEarned' = calculateSessionPoints(finalDuration', FALSE, "null")
    /\ stopRec' = mocha_active_session
    /\ stopAt' = now
    /\ pc' = "notes"

\* handleStopSession() up to its first await.
handleStopSession ==
    /\ popup_open /\ pc = "idle"
    /\ activeSession = Null \/ Len(mocha_sessions) < MaxSessions
    /\ IF activeSession = Null
       THEN /\ lastOp' = "stop_nosession"
            /\ UNCHANGED <<timerInterval, finalDuration, pointsEarned, stopRec,
                           stopAt, pc>>
       ELSE IF calculateElapsedTime(activeSession, now) > 60
       THEN /\ pc' = "confirm"
            /\ lastOp' = "none"
            /\ UNCHANGED <<timerInterval, finalDuration, pointsEarned, stopRec,
                           stopAt>>
       ELSE /\ TakeDuration
            /\ lastOp' = "none"
    /\ UNCHANGED <<now, tz, store, alarm, popup_open, activeSession, goals, tasks,
                   timerShown, nextId, uninterrupted>>
    /\ UNCHANGED running

\* showConfirmDialog() resolves.
StopConfirmed ==
    /\ popup_open /\ pc = "confirm"
    /\ \E confirmed \in BOOLEAN :
         IF confirmed
         THEN /\ TakeDuration
              /\ lastOp' = "none"
         ELSE /\ pc' = "idle"
              /\ lastOp' = "none"
              /\ UNCHANGED <<timerInterval, finalDuration, pointsEarned, stopRec,
                             stopAt>>
    /\ UNCHANGED <<now, tz, store, alarm, popup_open, activeSession, goals, tasks,
                   timerShown, nextId, uninterrupted>>
    /\ UNCHANGED running

\* A faulty variant that clears the active session before anything is saved.
StopSaveSession_clearsFirst ==
    /\ popup_open /\ pc = "notes"
    /\ mocha_active_session' = Null
    /\ pc' = "points"
    /\ stopRec' = Null
    /\ stopAt' = NoTime
    /\ UNCHANGED <<now, tz, mocha_goals, mocha_tasks, mocha_sessions,
                   mocha_gamification, mocha_weekly_progress, mocha_settings,
                   alarm, popup_open, activeSession, goals, tasks, timerInterval,
                   timerShown, finalDuration, pointsEarned, nextId,
                   uninterrupted, lastOp>>
    /\ UNCHANGED running

\* showNotesModal() resolves; createSession(); await saveSession().
StopSaveSession ==
    /\ popup_open /\ pc = "notes"
    /\ \E notes \in Notes :
         LET completedSession ==
                 createSession([goalId |-> activeSession.goalId,
                                startTime |-> activeSession.startTime,
                                endTime |-> now,
                                duration |-> finalDuration,
                                mode |-> activeSession.mode,
                                pomodorosCompleted |-> activeSession.pomodorosCompleted,
                                taskId |-> activeSession.taskId,
                                taskCompleted |-> FALSE,
                                pointsEarned |-> pointsEarned,
                                pausedDuration |-> activeSession.totalPausedDuration,
                                isManual |-> FALSE,
                                notes |-> notes],
                               nextId, now)
         IN  mocha_sessions' = saveSession(mocha_sessions, completedSession, TRUE)
    /\ nextId' = nextId + 1
    /\ pc' = "points"
    /\ stopRec' = Null
    /\ stopAt' = NoTime
    /\ UNCHANGED <<now, tz, mocha_goals, mocha_tasks, mocha_active_session,
                   mocha_gamification, mocha_weekly_progress, mocha_settings,
                   alarm, popup_open, activeSession, goals, tasks, timerInterval,
                   timerShown, finalDuration, pointsEarned, uninterrupted, lastOp>>
    /\ UNCHANGED running

\* await updatePoints(pointsEarned)
StopUpdatePoints ==
    /\ popup_open /\ pc = "points"
    /\ mocha_gamification' = updatePoints(mocha_gamification, pointsEarned)
    /\ pc' = "streak"
    /\ UNCHANGED <<now, tz, mocha_goals, mocha_tasks, mocha_sessions,
                   mocha_active_session, mocha_weekly_progress, mocha_settings,
                   alarm, popup_open, activeSession, goals, tasks, timerInterval,
                   timerShown, finalDuration, pointsEarned, nextId, hist>>
    /\ UNCHANGED running

\* await updateStreak()
StopUpdateStreak ==
    /\ popup_open /\ pc = "streak"
    /\ \E localDay \in LocalDayLengths :
         mocha_gamification' = updateStreak(mocha_gamification, now, localDay)
    /\ pc' = "clear"
    /\ UNCHANGED <<now, tz, mocha_goals, mocha_tasks, mocha_sessions,
                   mocha_active_session, mocha_weekly_progress, mocha_settings,
                   alarm, popup_open, activeSession, goals, tasks, timerInterval,
                   timerShown, finalDuration, pointsEarned, nextId, hist>>
    /\ UNCHANGED running

\* await clearActiveSession(); activeSession = null; SESSION_STOPPED.
StopClearActive ==
    /\ popup_open /\ pc = "clear"
    /\ mocha_active_session' = Null
    /\ activeSession' = Null
    /\ uninterrupted' = NoTime
    /\ alarm' = FALSE
    /\ pc' = "reload"
    /\ UNCHANGED <<now, tz, mocha_goals, mocha_tasks, mocha_sessions,
                   mocha_gamification, mocha_weekly_progress, mocha_settings,
                   popup_open, goals, tasks, timerInterval, timerShown,
                   finalDuration, pointsEarned, nextId, stopRec, stopAt, lastOp>>
    /\ UNCHANGED running

\* hideActiveSession(); await reloadGoals(); await reloadGamification().
StopReload ==
    /\ popup_open /\ pc = "reload"
    /\ goals' = NotArchived(mocha_goals)
    /\ tasks' = mocha_tasks
    /\ mocha_weekly_progress' =
           reloadGoals(mocha_sessions, mocha_tasks, NotArchived(mocha_goals), now, tz)
    /\ pc' = "idle"
    /\ finalDuration' = 0
    /\ pointsEarned' = 0
    /\ lastOp' = "none"
    /\ timerShown' = NoTimer
    /\ UNCHANGED <<now, tz, mocha_goals, mocha_tasks, mocha_sessions,
                   mocha_active_session, mocha_gamification, mocha_settings, alarm,
                   popup_open, activeSession, timerInterval,
                   nextId, uninterrupted, stopRec, stopAt>>
    /\ UNCHANGED running

-----------------------------------------------------------------------------
(* The session lifecycle: popup, service worker and clock *)

Goal(id, archived) ==
    [id |-> id, archived |-> archived, trackHours |-> TRUE, weeklyHourGoal |-> 10,
     trackTasks |-> FALSE, weeklyTaskGoal |-> 0]

Task(id, goalId, completedAt) ==
    [id |-> id, goalId |-> goalId, completed |-> completedAt # NoTime,
     completedAt |-> completedAt, difficulty |-> "medium"]

Init ==
    /\ now = T0
    /\ tz \in TimeZones
    /\ mocha_goals = <<Goal("g1", FALSE), Goal("g2", FALSE)>>
    /\ mocha_tasks = <<Task("t1", "g1", NoTime)>>
    /\ mocha_sessions = <<>>
    /\ mocha_active_session = Null
    /\ mocha_gamification = createGamification
    /\ mocha_weekly_progress = Null
    /\ mocha_settings = createSettings
    /\ alarm = FALSE
    /\ popup_open = FALSE
    /\ activeSession = Null
    /\ goals = <<>>
    /\ tasks = <<>>
    /\ timerInterval = FALSE
    /\ timerShown = NoTimer
    /\ pc = "idle"
    /\ finalDuration = 0
    /\ pointsEarned = 0
    /\ nextId = 1
    /\ uninterrupted = NoTime
    /\ stopRec = Null
    /\ stopAt = NoTime
    /\ lastOp = "none"
    /\ swActiveSession = Null
    /\ gamification = [c \in Contexts |-> Null]
    /\ messages = <<>>
    /\ serial = Null

Next ==
    \/ Advance
    \/ PopupInit
    \/ PopupClose
    \/ handleBeginSession
    \/ handlePauseSession
    \/ TimerIntervalTick
    \/ handleStopSession
    \/ StopConfirmed
    \/ StopSaveSession
    \/ StopUpdatePoints
    \/ StopUpdateStreak
    \/ StopClearActive
    \/ StopReload
    \/ initialize
    \/ handleSessionTimerTick
    \/ handleIdleStateChange

Spec == Init /\ [][Next]_vars

-----------------------------------------------------------------------------
(* calculateElapsedTime as a function: records and instants drawn from     *)
(* sets that include a clock set back and a paused time larger than the    *)
(* wall time, which the handlers above never produce under a monotone      *)
(* clock.                                                                  *)

StartTimes      == {T0, T0 + 700, T0 + 3700000}
PausedAts       == {NoTime, T0 + 3700000, T0 + 3800000}
PausedDurations == {0, 300, 100000, 4100000}
EvalInstants    == {T0 - 1000, T0, T0 + 3700000, T0 + 3800000, T0 + 4000000}

ElapsedRecords ==
    {[createActiveSession("g1", NoTask, "free", s)
        EXCEPT !.pausedAt = p, !.totalPausedDuration = d] :
     s \in StartTimes, p \in PausedAts, d \in PausedDurations}

InitElapsed ==
    /\ now \in EvalInstants
    /\ tz \in TimeZones
    /\ mocha_goals = <<Goal("g1", FALSE)>>
    /\ mocha_tasks = <<>>
    /\ mocha_sessions = <<>>
    /\ mocha_active_session \in ElapsedRecords
    /\ mocha_gamification = createGamification
    /\ mocha_weekly_progress = Null
    /\ mocha_settings = createSettings
    /\ alarm = TRUE
    /\ popup_open = TRUE
    /\ activeSession = mocha_active_session
    /\ goals = mocha_goals
    /\ tasks = <<>>
    /\ timerInterval = TRUE
    /\ timerShown = NoTimer
    /\ pc = "idle"
    /\ finalDuration = 0
    /\ pointsEarned = 0
    /\ nextId = 1
    /\ uninterrupted = NoTime
    /\ stopRec = Null
    /\ stopAt = NoTime
    /\ lastOp = "none"
    /\ swActiveSession = Null
    /\ gamification = [c \in Contexts |-> Null]
    /\ messages = <<>>
    /\ serial = Null

\* startTimerDisplay(), lines 1059-1062: the immediate update shows
\* calculateElapsedTime(activeSession).
EvalElapsed ==
    /\ lastOp = "none"
    /\ timerShown' = calculateElapsedTime(activeSession, now)
    /\ lastOp' = "elapsed"
    /\ UNCHANGED <<now, tz, store, alarm, popup_open, activeSession, goals, tasks,
                   timerInterval, pc, finalDuration, pointsEarned, nextId,
                   uninterrupted, stopRec, stopAt>>
    /\ UNCHANGED running

NextElapsed == EvalElapsed

SpecElapsed == InitElapsed /\ [][NextElapsed]_vars

-----------------------------------------------------------------------------
(* The session timer under Spec *)

\* C2: while the stored session is paused its elapsed time is computed with
\* pausedAt as the end boundary, so it has the same value before and after
\* every step that leaves the paused record in place, however far the clock
\* advances.
C2_PausedElapsedFrozen ==
    [][(/\ mocha_active_session # Null
        /\ mocha_active_session.pausedAt # NoTime
        /\ mocha_active_session' = mocha_active_session) =>
         /\ calculateElapsedTime(mocha_active_session, now') =
                calculateElapsedTime(mocha_active_session, now)
         /\ calculateElapsedTime(mocha_active_session, now') =
                Max(0, ((mocha_active_session.pausedAt
                           - mocha_active_session.startTime)
                          - mocha_active_session.totalPausedDuration)
                       \div millisecondsPerSecond)]_vars

C2_Witness ==
    /\ mocha_active_session # Null
    /\ mocha_active_session.startTime = T0
    /\ mocha_active_session.pausedAt = T0 + 700
    /\ now = T0 + 3800000
    /\ calculateElapsedTime(mocha_active_session, now) = 0

\* C3: elapsed time depends only on the stored record and the clock.  At
\* every instant, whatever reloads of the popup and restarts of the worker
\* came before, the popup's and the worker's computation from the record
\* they read equal the stopwatch of a process that was never unloaded; every
\* value written to the timer display is that value, however many ticks ran
\* or were missed; and a tick changes no record.
C3_ElapsedFromRecordAndClock ==
    /\ [](mocha_active_session # Null =>
            LET stopwatch == Max(0, uninterrupted \div millisecondsPerSecond)
            IN  /\ calculateElapsedTime(mocha_active_session, now) = stopwatch
                /\ swCalculateElapsedTime(mocha_active_session, now) = stopwatch
                /\ (popup_open =>
                      calculateElapsedTime(activeSession, now) = stopwatch))
    /\ [][(timerShown' # timerShown /\ timerShown' # NoTimer) =>
            timerShown' = Max(0, uninterrupted' \div millisecondsPerSecond)]_vars
    /\ [][(TimerIntervalTick \/ handleSessionTimerTick) =>
            UNCHANGED <<mocha_active_session, activeSession>>]_vars

C3_Witness ==
    /\ popup_open
    /\ lastOp = "init"
    /\ activeSession # Null
    /\ activeSession.startTime = T0
    /\ activeSession.totalPausedDuration = 700
    /\ activeSession.pausedAt = NoTime
    /\ now = T0 + 3700000
    /\ timerShown = 3699
    /\ uninterrupted = 3699300

\* C4: the only change to a paused session that stays in the slot is the
\* resume, which adds now - pausedAt to totalPausedDuration and clears
\* pausedAt; no step changes totalPausedDuration of a session that is not
\* paused.  After a pause at T + 3700 s and a resume at T + 3800 s the
\* paused time is 100 s, and the elapsed time at T + 4000 s is 3900.
C4_Resume ==
    /\ [][(/\ mocha_active_session # Null
            /\ mocha_active_session' # Null
            /\ mocha_active_session'.startTime = mocha_active_session.startTime
            /\ mocha_active_session' # mocha_active_session) =>
             IF mocha_active_session.pausedAt # NoTime
             THEN /\ mocha_active_session'.totalPausedDuration =
                        mocha_active_session.totalPausedDuration
                          + (now - mocha_active_session.pausedAt)
                  /\ mocha_active_session'.pausedAt = NoTime
             ELSE mocha_active_session'.totalPausedDuration =
                      mocha_active_session.totalPausedDuration]_vars
    /\ [][(/\ mocha_active_session # Null
            /\ mocha_active_session.startTime = T0
            /\ mocha_active_session.totalPausedDuration = 0
            /\ mocha_active_session.pausedAt = T0 + 3700000
            /\ now = T0 + 3800000
            /\ handlePauseSession) =>
             /\ mocha_active_session'.totalPausedDuration = 100000
             /\ calculateElapsedTime(mocha_active_session', T0 + 4000000) = 3900]_vars

C4_Witness ==
    /\ mocha_active_session # Null
    /\ mocha_active_session.startTime = T0
    /\ mocha_active_session.totalPausedDuration = 100000
    /\ mocha_active_session.pausedAt = NoTime
    /\ now = T0 + 3800000
    /\ popup_open
    /\ timerShown = 3700

C6_BeginNeverReplaces ==
    [][(mocha_active_session # Null /\ mocha_active_session' # Null) =>
         /\ mocha_active_session'.startTime = mocha_active_session.startTime
         /\ mocha_active_session'.goalId = mocha_active_session.goalId
         /\ mocha_active_session'.taskId = mocha_active_session.taskId]_vars

-----------------------------------------------------------------------------
(* Stopping a session under Spec *)

\* C7: the Session that stop persists has the goalId and taskId of the
\* ActiveSession and a duration equal to the elapsed time of the stored
\* record at the instant stop took its duration (after the confirmation,
\* lines 1133-1136), whether the session was running or paused then; once
\* stop has cleared the slot it is empty.
C7_StopRoundTrip ==
    /\ [][Len(mocha_sessions') > Len(mocha_sessions) =>
            LET s == mocha_sessions'[Len(mocha_sessions')]
                end == IF stopRec.pausedAt # NoTime THEN stopRec.pausedAt
                       ELSE stopAt
            IN  /\ stopRec # Null /\ mocha_active_session # Null
                /\ s.goalId = stopRec.goalId
                /\ s.taskId = stopRec.taskId
                /\ s.goalId = mocha_active_session.goalId
                /\ s.taskId = mocha_active_session.taskId
                /\ s.duration = calculateElapsedTime(stopRec, stopAt)
                /\ s.duration =
                       Max(0, ((end - stopRec.startTime)
                                 - stopRec.totalPausedDuration)
                              \div millisecondsPerSecond)]_vars
    /\ [](pc = "reload" => mocha_active_session = Null)

C7_Witness ==
    /\ pc = "idle" /\ popup_open
    /\ mocha_active_session = Null
    /\ Len(mocha_sessions) = 1
    /\ mocha_sessions[1].goalId = "g1"
    /\ mocha_sessions[1].taskId = "t1"
    /\ mocha_sessions[1].startTime = T0
    /\ mocha_sessions[1].pausedDuration = 700
    /\ mocha_sessions[1].endTime = T0 + 3800000
    /\ mocha_sessions[1].duration = 3699

C9_NoSessionNoChange ==
    [][((handlePauseSession \/ handleStopSession)
          /\ mocha_active_session = Null) =>
         /\ UNCHANGED store
         /\ activeSession' = Null
         /\ pc' = "idle"]_vars

C9_Witness ==
    /\ lastOp = "pause_nosession"
    /\ mocha_active_session = Null
    /\ Len(mocha_sessions) = 1
    /\ mocha_gamification.lifetimePoints > 0
    /\ mocha_weekly_progress # Null

-----------------------------------------------------------------------------
(* The save helpers of storage.js when chrome.storage.local may throw *)

\* The most sessions saved in one run of SpecStorage.
MaxRecords == 3

StorageGoalIds == {"g1", "g2"}
StorageTaskIds == {"t1", "t2"}

InitStorage ==
    /\ now = T0
    /\ tz \in TimeZones
    /\ mocha_goals = <<>>
    /\ mocha_tasks = <<>>
    /\ mocha_sessions = <<>>
    /\ mocha_active_session = Null
    /\ mocha_gamification = createGamification
    /\ mocha_weekly_progress = Null
    /\ mocha_settings = createSettings
    /\ alarm = FALSE
    /\ popup_open = FALSE
    /\ activeSession = Null
    /\ goals = <<>>
    /\ tasks = <<>>
    /\ timerInterval = FALSE
    /\ timerShown = NoTimer
    /\ pc = "idle"
    /\ finalDuration = 0
    /\ pointsEarned = 0
    /\ nextId = 1
    /\ uninterrupted = NoTime
    /\ stopRec = Null
    /\ stopAt = NoTime
    /\ lastOp = "none"
    /\ swActiveSession = Null
    /\ gamification = [c \in Contexts |-> Null]
    /\ messages = <<>>
    /\ serial = Null

\* A call of saveSession(session) with a fresh session.
SaveSessionCall ==
    /\ nextId <= MaxRecords
    /\ \E readOk \in BOOLEAN, writeOk \in BOOLEAN, goalId \in StorageGoalIds :
         LET session == createSession([goalId |-> goalId, startTime |-> now,
                                       endTime |-> now, duration |-> 0,
                                       mode |-> "free", pomodorosCompleted |-> 0,
                                       taskId |-> NoTask, taskCompleted |-> FALSE,
                                       pointsEarned |-> 0, pausedDuration |-> 0,
                                       isManual |-> TRUE, notes |-> ""],
                                      nextId, now)
         IN  /\ mocha_sessions' =
                    set(mocha_sessions,
                        saveSession(mocha_sessions, session, readOk), writeOk)
             /\ lastOp' = IF readOk THEN "save" ELSE "save_read_failed"
    /\ nextId' = nextId + 1
    /\ UNCHANGED <<now, tz, mocha_goals, mocha_tasks, mocha_active_session,
                   mocha_gamification, mocha_weekly_progress, mocha_settings,
                   alarm, popup, uninterrupted, stopRec, stopAt>>
    /\ UNCHANGED running

\* A call of saveGoal(goal) with a new goal or a new version of a stored one.
SaveGoalCall ==
    /\ \E readOk \in BOOLEAN, writeOk \in BOOLEAN,
          id \in StorageGoalIds, archived \in BOOLEAN :
         /\ mocha_goals' =
                set(mocha_goals, saveGoal(mocha_goals, Goal(id, archived), readOk),
                    writeOk)
         /\ lastOp' = IF readOk THEN "save" ELSE "save_read_failed"
    /\ UNCHANGED <<now, tz, mocha_tasks, mocha_sessions, mocha_active_session,
                   mocha_gamification, mocha_weekly_progress, mocha_settings,
                   alarm, popup, nextId, uninterrupted, stopRec, stopAt>>
    /\ UNCHANGED running

\* A call of saveTask(task) with a new task or a new version of a stored one.
SaveTaskCall ==
    /\ \E readOk \in BOOLEAN, writeOk \in BOOLEAN,
          id \in StorageTaskIds, completedAt \in {NoTime, now} :
         /\ mocha_tasks' =
                set(mocha_tasks, saveTask(mocha_tasks, Task(id, "g1", completedAt), readOk),
                    writeOk)
         /\ lastOp' = IF readOk THEN "save" ELSE "save_read_failed"
    /\ UNCHANGED <<now, tz, mocha_goals, mocha_sessions, mocha_active_session,
                   mocha_gamification, mocha_weekly_progress, mocha_settings,
                   alarm, popup, nextId, uninterrupted, stopRec, stopAt>>
    /\ UNCHANGED running

NextStorage ==
    \/ SaveSessionCall
    \/ SaveGoalCall
    \/ SaveTaskCall

SpecStorage == InitStorage /\ [][NextStorage]_vars

\* The ids of the records of a collection.
Ids(list) == {list[i].id : i \in DOMAIN list}

\* C10 as stated: a save helper never drops a record: every goal, task and
\* session persisted before a call is in its collection after it, whether or
\* not the read or the write inside the call failed.
C10_SaveKeepsRecords ==
    [][/\ Ids(mocha_sessions) \subseteq Ids(mocha_sessions')
       /\ Ids(mocha_goals) \subseteq Ids(mocha_goals')
       /\ Ids(mocha_tasks) \subseteq Ids(mocha_tasks')]_vars

-----------------------------------------------------------------------------
(* updateStreak over days: calls at instants near both ends of the UTC day, *)
(* on ordinary local days and on days the clocks change.                    *)

\* The number of days after the first that SpecStreak runs through.
MaxStreakDays == 5

StreakTimesOfDay == {MsPerHour \div 2, 12 * MsPerHour, 23 * MsPerHour + MsPerHour \div 2}

StreakInstants ==
    {d * MsPerDay + tod : d \in 4..(4 + MaxStreakDays), tod \in StreakTimesOfDay}

InitStreak ==
    /\ now = 4 * MsPerDay + MsPerHour \div 2
    /\ tz \in TimeZones
    /\ mocha_goals = <<>>
    /\ mocha_tasks = <<>>
    /\ mocha_sessions = <<>>
    /\ mocha_active_session = Null
    /\ mocha_gamification = createGamification
    /\ mocha_weekly_progress = Null
    /\ mocha_settings = createSettings
    /\ alarm = FALSE
    /\ popup_open = FALSE
    /\ activeSession = Null
    /\ goals = <<>>
    /\ tasks = <<>>
    /\ timerInterval = FALSE
    /\ timerShown = NoTimer
    /\ pc = "idle"
    /\ finalDuration = 0
    /\ pointsEarned = 0
    /\ nextId = 1
    /\ uninterrupted = NoTime
    /\ stopRec = Null
    /\ stopAt = NoTime
    /\ lastOp = "none"
    /\ swActiveSession = Null
    /\ gamification = [c \in Contexts |-> Null]
    /\ messages = <<>>
    /\ serial = Null

StreakAdvance ==
    /\ \E t \in StreakInstants : t > now /\ now' = t
    /\ UNCHANGED <<tz, store, alarm, popup, nextId, hist>>
    /\ UNCHANGED running

\* A call of updateStreak().
UpdateStreakCall ==
    /\ \E localDay \in LocalDayLengths :
         mocha_gamification' = updateStreak(mocha_gamification, now, localDay)
    /\ UNCHANGED <<now, tz, mocha_goals, mocha_tasks, mocha_sessions,
                   mocha_active_session, mocha_weekly_progress, mocha_settings,
                   alarm, popup, nextId, hist>>
    /\ UNCHANGED running

NextStreak ==
    \/ StreakAdvance
    \/ UpdateStreakCall

SpecStreak == InitStreak /\ [][NextStreak]_vars

\* C11 as stated: a call of updateStreak leaves the record unchanged when
\* lastStudyDate is today; otherwise it sets lastStudyDate to today and
\* currentStreak to one more when lastStudyDate is the day before today and
\* to 1 when it is older or null.
C11_UpdateStreak ==
    [][UpdateStreakCall =>
         LET g == mocha_gamification
             today == IsoDate(now)
         IN  IF g.lastStudyDate = today
             THEN mocha_gamification' = g
             ELSE /\ mocha_gamification'.lastStudyDate = today
                  /\ mocha_gamification'.currentStreak =
                         IF g.lastStudyDate = today - 1
                         THEN g.currentStreak + 1 ELSE 1]_vars

\* C12: starting from the default record, through any updateStreak calls
\* and day changes, longestStreak is at least currentStreak and never
\* decreases, and every call that changes the record leaves longestStreak
\* equal to the larger of its previous value and the new currentStreak.
C12_LongestStreak ==
    /\ [](mocha_gamification.longestStreak >= mocha_gamification.currentStreak)
    /\ [][mocha_gamification'.longestStreak
              >= mocha_gamification.longestStreak]_vars
    /\ [][mocha_gamification' # mocha_gamification =>
            mocha_gamification'.longestStreak =
                Max(mocha_gamification.longestStreak,
                    mocha_gamification'.currentStreak)]_vars

C12_Witness ==
    /\ mocha_gamification.longestStreak = 3
    /\ mocha_gamification.currentStreak = 2
    /\ mocha_gamification.lastStudyDate = 4 + MaxStreakDays

-----------------------------------------------------------------------------
(* updatePoints under awards and deductions *)

\* Awards stop once lifetimePoints has reached this.
MaxLifetimePoints == 40

PointAmounts == {-40, -5, 0, 5, 30}

InitPoints ==
    /\ now = T0
    /\ tz \in TimeZones
    /\ mocha_goals = <<>>
    /\ mocha_tasks = <<>>
    /\ mocha_sessions = <<>>
    /\ mocha_active_session = Null
    /\ mocha_gamification = createGamification
    /\ mocha_weekly_progress = Null
    /\ mocha_settings = createSettings
    /\ alarm = FALSE
    /\ popup_open = FALSE
    /\ activeSession = Null
    /\ goals = <<>>
    /\ tasks = <<>>
    /\ timerInterval = FALSE
    /\ timerShown = NoTimer
    /\ pc = "idle"
    /\ finalDuration = 0
    /\ pointsEarned = 0
    /\ nextId = 1
    /\ uninterrupted = NoTime
    /\ stopRec = Null
    /\ stopAt = NoTime
    /\ lastOp = "none"
    /\ swActiveSession = Null
    /\ gamification = [c \in Contexts |-> Null]
    /\ messages = <<>>
    /\ serial = Null

\* A call of updatePoints(amount); pointsEarned holds the amount passed.
UpdatePointsCall ==
    /\ \E amount \in PointAmounts :
         /\ amount > 0 => mocha_gamification.lifetimePoints < MaxLifetimePoints
         /\ pointsEarned' = amount
         /\ mocha_gamification' = updatePoints(mocha_gamification, amount)
    /\ UNCHANGED <<now, tz, mocha_goals, mocha_tasks, mocha_sessions,
                   mocha_active_session, mocha_weekly_progress, mocha_settings,
                   alarm, popup_open, activeSession, goals, tasks, timerInterval,
                   timerShown, pc, finalDuration, nextId, hist>>
    /\ UNCHANGED running

NextPoints == UpdatePointsCall

SpecPoints == InitPoints /\ [][NextPoints]_vars

\* C13: updatePoints(amount) leaves totalPoints at totalPoints + amount, or
\* at 0 when that sum is negative, and adds amount to lifetimePoints and to
\* pointsThisWeek only when amount is positive; so totalPoints is never
\* negative and lifetimePoints never decreases.
C13_UpdatePoints ==
    /\ [](mocha_gamification.totalPoints >= 0)
    /\ [][mocha_gamification'.lifetimePoints
              >= mocha_gamification.lifetimePoints]_vars
    /\ [][UpdatePointsCall =>
            LET g == mocha_gamification
                h == mocha_gamification'
                sum == g.totalPoints + pointsEarned'
                award == IF pointsEarned' > 0 THEN pointsEarned' ELSE 0
            IN  /\ sum >= 0 => h.totalPoints = sum
                /\ sum < 0 => h.totalPoints = 0
                /\ h.lifetimePoints = g.lifetimePoints + award
                /\ h.pointsThisWeek = g.pointsThisWeek + award]_vars

C13_Witness ==
    /\ pointsEarned = -40
    /\ mocha_gamification.totalPoints = 0
    /\ mocha_gamification.lifetimePoints = 35
    /\ mocha_gamification.pointsThisWeek = 35

-----------------------------------------------------------------------------
(* progress.js: the manual entry form *)

\* The most manual entries saved in one run of SpecManual.
MaxManualEntries == 2

\* Values of #manual-goal ('' when nothing is selected), of the duration
\* fields in seconds, and of #manual-date as a UTC day number.
ManualGoalValues == {"", "g1", "g2"}
ManualDurations  == {0, 1800, 3600}
ManualDates      == {3, 4, 5}

InitManual ==
    /\ now = T0
    /\ tz \in TimeZones
    /\ mocha_goals = <<Goal("g1", FALSE), Goal("g2", FALSE)>>
    /\ mocha_tasks = <<>>
    /\ mocha_sessions = <<>>
    /\ mocha_active_session = Null
    /\ mocha_gamification = createGamification
    /\ mocha_weekly_progress = Null
    /\ mocha_settings = createSettings
    /\ alarm = FALSE
    /\ popup_open = FALSE
    /\ activeSession = Null
    /\ goals = mocha_goals
    /\ tasks = <<>>
    /\ timerInterval = FALSE
    /\ timerShown = NoTimer
    /\ pc = "idle"
    /\ finalDuration = 0
    /\ pointsEarned = 0
    /\ nextId = 1
    /\ uninterrupted = NoTime
    /\ stopRec = Null
    /\ stopAt = NoTime
    /\ lastOp = "none"
    /\ swActiveSession = Null
    /\ gamification = [c \in Contexts |-> Null]
    /\ messages = <<>>
    /\ serial = Null

ManualAdvance ==
    /\ \E t \in {T0 + MsPerDay, T0 + 2 * MsPerDay} : t > now /\ now' = t
    /\ UNCHANGED <<tz, store, alarm, popup, nextId, hist>>
    /\ UNCHANGED running

\* handleSaveManualEntry().  goals and tasks are the page's globals of the
\* same names; its sessions global equals mocha_sessions after the reload.
handleSaveManualEntry ==
    /\ Len(mocha_sessions) < MaxManualEntries
    /\ \E goalId \in ManualGoalValues, durationSeconds \in ManualDurations,
          date \in ManualDates :
         IF goalId = "" \/ durationSeconds <= 0
         THEN /\ lastOp' = "manual_rejected"
              /\ UNCHANGED <<mocha_sessions, goals, tasks, nextId>>
         ELSE LET sessionDate ==
                      LocalMidnight(LocalDay(ParseDate(date), tz), tz)
                          + 12 * MsPerHour
                  points == calculateSessionPoints(durationSeconds, FALSE, "null")
                  session ==
                      createSession(
                          [goalId |-> goalId,
                           startTime |-> sessionDate,
                           endTime |-> sessionDate
                                         + durationSeconds * millisecondsPerSecond,
                           duration |-> durationSeconds,
                           mode |-> "free",
                           pomodorosCompleted |-> 0,
                           taskId |-> NoTask,
                           taskCompleted |-> FALSE,
                           pointsEarned |-> points,
                           pausedDuration |-> 0,
                           isManual |-> TRUE,
                           notes |-> ""],
                          nextId, now)
              IN  /\ mocha_sessions' = saveSession(mocha_sessions, session, TRUE)
                  /\ goals' = NotArchived(mocha_goals)
                  /\ tasks' = mocha_tasks
                  /\ nextId' = nextId + 1
                  /\ lastOp' = "manual_saved"
    /\ UNCHANGED <<now, tz, mocha_goals, mocha_tasks, mocha_active_session,
                   mocha_gamification, mocha_weekly_progress, mocha_settings,
                   alarm, popup_open, activeSession, timerInterval, timerShown,
                   pc, finalDuration, pointsEarned, uninterrupted, stopRec,
                   stopAt>>
    /\ UNCHANGED running

NextManual ==
    \/ ManualAdvance
    \/ handleSaveManualEntry

SpecManual == InitManual /\ [][NextManual]_vars

\* C14 as stated: every operation that persists a completed Session has
\* called updateStreak once by the time it returns, so after it the last
\* study date is the day of the call.
C14_StreakAfterEverySession ==
    [][Len(mocha_sessions') > Len(mocha_sessions) =>
         mocha_gamification'.lastStudyDate = IsoDate(now)]_vars

-----------------------------------------------------------------------------
(* points.js: calculateSessionPoints as a function *)

PointsDurations ==
    {0, 1, 359, 360, 361, 1079, 1080, 1800, 3599, 3600, 3700, 7200, 86400}

TaskDifficulties == {"easy", "medium", "hard", "null", "extreme"}

\* The task of the session: completed or not, of each difficulty.
PointsTasks ==
    {[Task("t1", "g1", c) EXCEPT !.difficulty = d] :
     c \in {NoTime, T0}, d \in TaskDifficulties}

InitSessionPoints ==
    /\ now = T0
    /\ tz \in TimeZones
    /\ mocha_goals = <<>>
    /\ mocha_tasks \in {<<t>> : t \in PointsTasks}
    /\ mocha_sessions = <<>>
    /\ mocha_active_session = Null
    /\ mocha_gamification = createGamification
    /\ mocha_weekly_progress = Null
    /\ mocha_settings = createSettings
    /\ alarm = FALSE
    /\ popup_open = FALSE
    /\ activeSession = Null
    /\ goals = <<>>
    /\ tasks = mocha_tasks
    /\ timerInterval = FALSE
    /\ timerShown = NoTimer
    /\ pc = "idle"
    /\ finalDuration \in PointsDurations
    /\ pointsEarned = 0
    /\ nextId = 1
    /\ uninterrupted = NoTime
    /\ stopRec = Null
    /\ stopAt = NoTime
    /\ lastOp = "none"
    /\ swActiveSession = Null
    /\ gamification = [c \in Contexts |-> Null]
    /\ messages = <<>>
    /\ serial = Null

\* calculateSessionPoints(finalDuration, task.completed, task.difficulty)
EvalSessionPoints ==
    /\ lastOp = "none"
    /\ pointsEarned' = calculateSessionPoints(finalDuration, tasks[1].completed,
                                             tasks[1].difficulty)
    /\ lastOp' = "points"
    /\ UNCHANGED <<now, tz, store, alarm, popup_open, activeSession, goals, tasks,
                   timerInterval, timerShown, pc, finalDuration, nextId,
                   uninterrupted, stopRec, stopAt>>
    /\ UNCHANGED running

NextSessionPoints == EvalSessionPoints

SpecSessionPoints == InitSessionPoints /\ [][NextSessionPoints]_vars

-----------------------------------------------------------------------------
(* points.js: calculateWeeklyBonus as a function *)

WEEKLY_GOAL_BONUS == 50

PERFECT_WEEK_BONUS == 100

\* A faulty variant that also evaluates archived goals.
calculateWeeklyBonus_countsArchived(weeklyProgress, gs) ==
    LET Evaluated(g) == g.id \in DOMAIN weeklyProgress.goals
        GoalMet(g) ==
            LET progress == weeklyProgress.goals[g.id]
            IN  /\ ~(/\ g.trackHours /\ g.weeklyHourGoal # 0
                     /\ progress.hoursCompleted < g.weeklyHourGoal * 100)
                /\ ~(/\ g.trackTasks /\ g.weeklyTaskGoal # 0
                     /\ progress.tasksCompleted < g.weeklyTaskGoal)
        met == {i \in DOMAIN gs : Evaluated(gs[i]) /\ GoalMet(gs[i])}
        unmet == {i \in DOMAIN gs : Evaluated(gs[i]) /\ ~GoalMet(gs[i])}
        perfectWeekBonus == IF unmet = {} /\ met # {}
                            THEN PERFECT_WEEK_BONUS ELSE 0
    IN  IF weeklyProgress = Null \/ Len(gs) = 0
        THEN [goalBonuses |-> <<>>, perfectWeekBonus |-> 0, total |-> 0]
        ELSE [goalBonuses |-> [id \in {gs[i].id : i \in met} |-> WEEKLY_GOAL_BONUS],
              perfectWeekBonus |-> perfectWeekBonus,
              total |-> SumInts([i \in DOMAIN gs |->
                                   IF i \in met THEN WEEKLY_GOAL_BONUS ELSE 0])
                        + perfectWeekBonus]

\* A faulty variant that grants the perfect week when no goal was evaluated.
calculateWeeklyBonus_perfectWithoutAny(weeklyProgress, gs) ==
    LET Evaluated(g) == ~g.archived /\ g.id \in DOMAIN weeklyProgress.goals
        GoalMet(g) ==
            LET progress == weeklyProgress.goals[g.id]
            IN  /\ ~(/\ g.trackHours /\ g.weeklyHourGoal # 0
                     /\ progress.hoursCompleted < g.weeklyHourGoal * 100)
                /\ ~(/\ g.trackTasks /\ g.weeklyTaskGoal # 0
                     /\ progress.tasksCompleted < g.weeklyTaskGoal)
        met == {i \in DOMAIN gs : Evaluated(gs[i]) /\ GoalMet(gs[i])}
        unmet == {i \in DOMAIN gs : Evaluated(gs[i]) /\ ~GoalMet(gs[i])}
        perfectWeekBonus == IF unmet = {} THEN PERFECT_WEEK_BONUS ELSE 0
    IN  IF weeklyProgress = Null \/ Len(gs) = 0
        THEN [goalBonuses |-> <<>>, perfectWeekBonus |-> 0, total |-> 0]
        ELSE [goalBonuses |-> [id \in {gs[i].id : i \in met} |-> WEEKLY_GOAL_BONUS],
              perfectWeekBonus |-> perfectWeekBonus,
              total |-> SumInts([i \in DOMAIN gs |->
                                   IF i \in met THEN WEEKLY_GOAL_BONUS ELSE 0])
                        + perfectWeekBonus]

\* calculateWeeklyBonus(weeklyProgress, goals).  A goal is looked at when it
\* is not archived and weeklyProgress.goals has an entry for its id; a target
\* is compared only when its tracking flag is set and the target is truthy
\* (0 stands for a null or zero target).  hoursCompleted is in hundredths of
\* an hour, as calculateWeeklyProgress produces it.
calculateWeeklyBonus(weeklyProgress, gs) ==
    LET Evaluated(g) == ~g.archived /\ g.id \in DOMAIN weeklyProgress.goals
        GoalMet(g) ==
            LET progress == weeklyProgress.goals[g.id]
            IN  /\ ~(/\ g.trackHours /\ g.weeklyHourGoal # 0
                     /\ progress.hoursCompleted < g.weeklyHourGoal * 100)
                /\ ~(/\ g.trackTasks /\ g.weeklyTaskGoal # 0
                     /\ progress.tasksCompleted < g.weeklyTaskGoal)
        met == {i \in DOMAIN gs : Evaluated(gs[i]) /\ GoalMet(gs[i])}
        unmet == {i \in DOMAIN gs : Evaluated(gs[i]) /\ ~GoalMet(gs[i])}
        allGoalsMet == unmet = {}
        anyGoalsMet == met # {}
        perfectWeekBonus == IF allGoalsMet /\ anyGoalsMet
                            THEN PERFECT_WEEK_BONUS ELSE 0
    IN  IF weeklyProgress = Null \/ Len(gs) = 0
        THEN [goalBonuses |-> <<>>, perfectWeekBonus |-> 0, total |-> 0]
        ELSE [goalBonuses |-> [id \in {gs[i].id : i \in met} |-> WEEKLY_GOAL_BONUS],
              perfectWeekBonus |-> perfectWeekBonus,
              total |-> SumInts([i \in DOMAIN gs |->
                                   IF i \in met THEN WEEKLY_GOAL_BONUS ELSE 0])
                        + perfectWeekBonus]

\* The goals handed to calculateWeeklyBonus: none, one or two, each archived
\* or not, with hours and tasks tracked or not; the first goal also without
\* an hour target.
BonusGoals(id, hourGoals) ==
    {[Goal(id, a) EXCEPT !.trackHours = th, !.weeklyHourGoal = hg,
                         !.trackTasks = tt, !.weeklyTaskGoal = 3] :
     a \in BOOLEAN, th \in BOOLEAN, tt \in BOOLEAN, hg \in hourGoals}

BonusGoalLists ==
    {<<>>} \cup {<<g>> : g \in BonusGoals("g1", {0, 10})}
           \cup {<<g, h>> : g \in BonusGoals("g1", {0, 10}),
                            h \in BonusGoals("g2", {10})}

\* The week's progress: missing, or entries for some of the goals, each just
\* below or exactly at the targets.
BonusProgressEntries ==
    [hoursCompleted : {999, 1000}, tasksCompleted : {2, 3}]

BonusProgress ==
    {Null} \cup
    {[weekStart |-> 0, weekEnd |-> 6, goals |-> e, totalHours |-> 0,
      totalTasks |-> 0] :
     e \in UNION {[D -> BonusProgressEntries] : D \in SUBSET {"g1", "g2"}}}

InitWeeklyBonus ==
    /\ now = T0
    /\ tz \in TimeZones
    /\ mocha_goals \in BonusGoalLists
    /\ mocha_tasks = <<>>
    /\ mocha_sessions = <<>>
    /\ mocha_active_session = Null
    /\ mocha_gamification = createGamification
    /\ mocha_weekly_progress \in BonusProgress
    /\ mocha_settings = createSettings
    /\ alarm = FALSE
    /\ popup_open = FALSE
    /\ activeSession = Null
    /\ goals = mocha_goals
    /\ tasks = <<>>
    /\ timerInterval = FALSE
    /\ timerShown = NoTimer
    /\ pc = "idle"
    /\ finalDuration = 0
    /\ pointsEarned = 0
    /\ nextId = 1
    /\ uninterrupted = NoTime
    /\ stopRec = Null
    /\ stopAt = NoTime
    /\ lastOp = "none"
    /\ swActiveSession = Null
    /\ gamification = [c \in Contexts |-> Null]
    /\ messages = <<>>
    /\ serial = Null

\* calculateWeeklyBonus(weeklyProgress, goals); pointsEarned takes the result.
EvalWeeklyBonus ==
    /\ lastOp = "none"
    /\ pointsEarned' = calculateWeeklyBonus(mocha_weekly_progress, goals)
    /\ lastOp' = "weekly_bonus"
    /\ UNCHANGED <<now, tz, store, alarm, popup_open, activeSession, goals, tasks,
                   timerInterval, timerShown, pc, finalDuration, nextId,
                   uninterrupted, stopRec, stopAt>>
    /\ UNCHANGED running

NextWeeklyBonus == EvalWeeklyBonus

SpecWeeklyBonus == InitWeeklyBonus /\ [][NextWeeklyBonus]_vars

\* C17: calculateWeeklyBonus puts 50 in goalBonuses for exactly the goals
\* that are not archived, have a progress entry and are met (hours untracked
\* or hoursCompleted >= weeklyHourGoal, and tasks untracked or
\* tasksCompleted >= weeklyTaskGoal); every other goal gets no entry, and
\* total = 50 * (number of entries of goalBonuses) + perfectWeekBonus.
C17_WeeklyGoalBonus ==
    lastOp = "weekly_bonus" =>
        LET r == pointsEarned
            wp == mocha_weekly_progress
            HasEntry(g) == wp # Null /\ g.id \in DOMAIN wp.goals
            Met(g) ==
                /\ ~g.trackHours
                   \/ wp.goals[g.id].hoursCompleted >= g.weeklyHourGoal * 100
                /\ ~g.trackTasks
                   \/ wp.goals[g.id].tasksCompleted >= g.weeklyTaskGoal
        IN  /\ \A i \in DOMAIN goals :
                 IF ~goals[i].archived /\ HasEntry(goals[i]) /\ Met(goals[i])
                 THEN /\ goals[i].id \in DOMAIN r.goalBonuses
                      /\ r.goalBonuses[goals[i].id] = 50
                 ELSE goals[i].id \notin DOMAIN r.goalBonuses
            /\ DOMAIN r.goalBonuses \subseteq GoalIds(goals)
            /\ r.total = 50 * Cardinality(DOMAIN r.goalBonuses)
                         + r.perfectWeekBonus

\* Two goals with progress entries: the archived one is met and gets nothing,
\* the other, short of its hour target, gets nothing either.
C17_Witness ==
    /\ lastOp = "weekly_bonus"
    /\ Len(goals) = 2
    /\ goals[1].archived /\ ~goals[2].archived
    /\ mocha_weekly_progress # Null
    /\ DOMAIN mocha_weekly_progress.goals = {"g1", "g2"}
    /\ mocha_weekly_progress.goals["g1"].hoursCompleted = 1000
    /\ mocha_weekly_progress.goals["g1"].tasksCompleted = 3
    /\ goals[2].trackHours
    /\ mocha_weekly_progress.goals["g2"].hoursCompleted = 999
    /\ pointsEarned.total = 0

\* C18: perfectWeekBonus is 100 when at least one goal was evaluated (not
\* archived, with a progress entry) and every evaluated goal is met, and 0
\* otherwise; it enters the total once.  A single goal with weeklyHourGoal 10,
\* hours tracked, tasks untracked and hoursCompleted 10 gives total 150.
C18_PerfectWeek ==
    lastOp = "weekly_bonus" =>
        LET r == pointsEarned
            wp == mocha_weekly_progress
            evaluated == {i \in DOMAIN goals :
                            /\ ~goals[i].archived
                            /\ wp # Null
                            /\ goals[i].id \in DOMAIN wp.goals}
            Met(g) ==
                /\ ~g.trackHours
                   \/ wp.goals[g.id].hoursCompleted >= g.weeklyHourGoal * 100
                /\ ~g.trackTasks
                   \/ wp.goals[g.id].tasksCompleted >= g.weeklyTaskGoal
            perfect == evaluated # {} /\ \A i \in evaluated : Met(goals[i])
        IN  /\ r.perfectWeekBonus = IF perfect THEN 100 ELSE 0
            /\ r.total = 50 * Cardinality({i \in evaluated : Met(goals[i])})
                         + (IF perfect THEN 100 ELSE 0)
            /\ (/\ Len(goals) = 1
                /\ ~goals[1].archived
                /\ goals[1].trackHours /\ goals[1].weeklyHourGoal = 10
                /\ ~goals[1].trackTasks
                /\ wp # Null /\ goals[1].id \in DOMAIN wp.goals
                /\ wp.goals[goals[1].id].hoursCompleted = 1000)
               => r.total = 150

\* Two goals, one archived and short of its targets, the other met: the
\* archived goal does not stand in the way of the perfect week.
C18_Witness ==
    /\ lastOp = "weekly_bonus"
    /\ Len(goals) = 2
    /\ goals[1].archived /\ goals[1].trackHours /\ goals[1].weeklyHourGoal = 10
    /\ ~goals[2].archived /\ goals[2].trackHours
    /\ mocha_weekly_progress # Null
    /\ DOMAIN mocha_weekly_progress.goals = {"g1", "g2"}
    /\ mocha_weekly_progress.goals["g1"].hoursCompleted = 999
    /\ mocha_weekly_progress.goals["g2"].hoursCompleted = 1000
    /\ mocha_weekly_progress.goals["g2"].tasksCompleted = 3
    /\ pointsEarned.perfectWeekBonus = 100
    /\ pointsEarned.total = 150

-----------------------------------------------------------------------------
(* points.js: the streak bonuses as functions *)

STREAK_MILESTONES ==
    7 :> 50 @@ 14 :> 100 @@ 30 :> 200 @@ 60 :> 300 @@ 90 :> 500 @@ 365 :> 1000

DAILY_STREAK_BONUS == 2

\* A faulty variant that keeps paying the last milestone passed.
calculateStreakMilestoneBonus_atOrAbove(currentStreak) ==
    LET passed == {k \in DOMAIN STREAK_MILESTONES : k <= currentStreak}
    IN  IF passed = {} THEN 0
        ELSE STREAK_MILESTONES[CHOOSE k \in passed : \A j \in passed : j <= k]

\* calculateStreakMilestoneBonus(currentStreak): STREAK_MILESTONES[n] || 0
calculateStreakMilestoneBonus(currentStreak) ==
    IF currentStreak \in DOMAIN STREAK_MILESTONES
    THEN STREAK_MILESTONES[currentStreak] ELSE 0

\* A faulty variant without the cap on the multiplier.
calculateDailyStreakBonus_uncapped(currentStreak) ==
    IF currentStreak <= 0 THEN 0
    ELSE DAILY_STREAK_BONUS * (currentStreak \div 7 + 1)

\* calculateDailyStreakBonus(currentStreak)
calculateDailyStreakBonus(currentStreak) ==
    IF currentStreak <= 0 THEN 0
    ELSE LET weeks == currentStreak \div 7 + 1
             multiplier == IF weeks < 10 THEN weeks ELSE 10
         IN  DAILY_STREAK_BONUS * multiplier

\* The longest streak handed to the bonus functions.
MaxStreak == 400

InitStreakBonus ==
    /\ now = T0
    /\ tz \in TimeZones
    /\ mocha_goals = <<>>
    /\ mocha_tasks = <<>>
    /\ mocha_sessions = <<>>
    /\ mocha_active_session = Null
    /\ mocha_gamification \in
           {[createGamification EXCEPT !.currentStreak = n,
                                       !.longestStreak = Max(n, 0)] :
            n \in -2 .. MaxStreak}
    /\ mocha_weekly_progress = Null
    /\ mocha_settings = createSettings
    /\ alarm = FALSE
    /\ popup_open = FALSE
    /\ activeSession = Null
    /\ goals = <<>>
    /\ tasks = <<>>
    /\ timerInterval = FALSE
    /\ timerShown = NoTimer
    /\ pc = "idle"
    /\ finalDuration = 0
    /\ pointsEarned = 0
    /\ nextId = 1
    /\ uninterrupted = NoTime
    /\ stopRec = Null
    /\ stopAt = NoTime
    /\ lastOp = "none"
    /\ swActiveSession = Null
    /\ gamification = [c \in Contexts |-> Null]
    /\ messages = <<>>
    /\ serial = Null

\* calculateStreakMilestoneBonus(gamification.currentStreak)
EvalMilestoneBonus ==
    /\ lastOp = "none"
    /\ pointsEarned' = calculateStreakMilestoneBonus(mocha_gamification.currentStreak)
    /\ lastOp' = "milestone"
    /\ UNCHANGED <<now, tz, store, alarm, popup_open, activeSession, goals, tasks,
                   timerInterval, timerShown, pc, finalDuration, nextId,
                   uninterrupted, stopRec, stopAt>>
    /\ UNCHANGED running

\* calculateDailyStreakBonus(gamification.currentStreak)
EvalDailyBonus ==
    /\ lastOp = "none"
    /\ pointsEarned' = calculateDailyStreakBonus(mocha_gamification.currentStreak)
    /\ lastOp' = "daily"
    /\ UNCHANGED <<now, tz, store, alarm, popup_open, activeSession, goals, tasks,
                   timerInterval, timerShown, pc, finalDuration, nextId,
                   uninterrupted, stopRec, stopAt>>
    /\ UNCHANGED running

NextStreakBonus == EvalMilestoneBonus \/ EvalDailyBonus

SpecStreakBonus == InitStreakBonus /\ [][NextStreakBonus]_vars

\* C19: calculateStreakMilestoneBonus(n) is 50, 100, 200, 300, 500, 1000 for
\* n exactly 7, 14, 30, 60, 90, 365 and 0 for every other n, the values
\* between and above the milestones included.
C19_MilestoneBonus ==
    lastOp = "milestone" =>
        LET n == mocha_gamification.currentStreak
            r == pointsEarned
        IN  /\ n = 7 => r = 50
            /\ n = 14 => r = 100
            /\ n = 30 => r = 200
            /\ n = 60 => r = 300
            /\ n = 90 => r = 500
            /\ n = 365 => r = 1000
            /\ n \notin {7, 14, 30, 60, 90, 365} => r = 0

\* The day after the first milestone earns nothing.
C19_Witness ==
    /\ lastOp = "milestone"
    /\ mocha_gamification.currentStreak = 8
    /\ pointsEarned = 0

\* C20: calculateDailyStreakBonus(n) is 0 for n <= 0 and otherwise
\* 2 * min(floor(n / 7) + 1, 10), so it is never above 20; it is 0 at 0,
\* 4 at 7 and 20 at 70.
C20_DailyStreakBonus ==
    lastOp = "daily" =>
        LET n == mocha_gamification.currentStreak
            r == pointsEarned
            q == CHOOSE k \in 0 .. n : 7 * k <= n /\ n < 7 * (k + 1)
        IN  /\ n <= 0 => r = 0
            /\ n > 0 => \/ q + 1 <= 10 /\ r = 2 * (q + 1)
                        \/ q + 1 > 10 /\ r = 2 * 10
            /\ r <= 20
            /\ n = 0 => r = 0
            /\ n = 7 => r = 4
            /\ n = 70 => r = 20

\* A 70-day streak is past the cap of the multiplier.
C20_Witness ==
    /\ lastOp = "daily"
    /\ mocha_gamification.currentStreak = 70
    /\ pointsEarned = 20

-----------------------------------------------------------------------------
(* points.js: calculateTotalSessionPoints as a function *)

\* A faulty variant that takes the bonuses of the streak before today.
calculateTotalSessionPoints_oldStreak(durationSeconds, taskCompleted, taskDifficulty, currentStreak, isFirstSessionToday) ==
    LET base == RoundDiv(durationSeconds * POINTS_PER_HOUR, secondsPerHour)
        taskBonus == IF taskCompleted THEN TASK_COMPLETE_BONUS ELSE 0
        difficultyBonus == IF taskCompleted THEN DifficultyBonus(taskDifficulty) ELSE 0
        streakBonus == IF isFirstSessionToday
                       THEN calculateDailyStreakBonus(currentStreak)
                            + calculateStreakMilestoneBonus(currentStreak)
                       ELSE 0
    IN  [base |-> base, taskBonus |-> taskBonus,
         difficultyBonus |-> difficultyBonus, streakBonus |-> streakBonus,
         total |-> base + taskBonus + difficultyBonus + streakBonus]

\* calculateTotalSessionPoints(params)
calculateTotalSessionPoints(durationSeconds, taskCompleted, taskDifficulty, currentStreak, isFirstSessionToday) ==
    LET base == RoundDiv(durationSeconds * POINTS_PER_HOUR, secondsPerHour)
        taskBonus == IF taskCompleted THEN TASK_COMPLETE_BONUS ELSE 0
        difficultyBonus == IF taskCompleted THEN DifficultyBonus(taskDifficulty) ELSE 0
        newStreak == currentStreak + 1
        streakBonus == IF isFirstSessionToday
                       THEN calculateDailyStreakBonus(newStreak)
                            + calculateStreakMilestoneBonus(newStreak)
                       ELSE 0
    IN  [base |-> base, taskBonus |-> taskBonus,
         difficultyBonus |-> difficultyBonus, streakBonus |-> streakBonus,
         total |-> base + taskBonus + difficultyBonus + streakBonus]

TotalDurations == {0, 1080, 3600, 7200}

\* Streaks before the session: around the first milestone, around the cap of
\* the daily multiplier, and the day before the last milestone.
TotalStreaks == {0, 5, 6, 7, 13, 62, 63, 364}

\* The day of the last study session: yesterday or today.
TotalLastStudyDates == {IsoDate(T0) - 1, IsoDate(T0)}

InitTotalPoints ==
    /\ now = T0
    /\ tz \in TimeZones
    /\ mocha_goals = <<>>
    /\ mocha_tasks \in {<<t>> : t \in PointsTasks}
    /\ mocha_sessions = <<>>
    /\ mocha_active_session = Null
    /\ mocha_gamification \in
           {[createGamification EXCEPT !.currentStreak = n, !.longestStreak = n,
                                       !.lastStudyDate = d] :
            n \in TotalStreaks, d \in TotalLastStudyDates}
    /\ mocha_weekly_progress = Null
    /\ mocha_settings = createSettings
    /\ alarm = FALSE
    /\ popup_open = FALSE
    /\ activeSession = Null
    /\ goals = <<>>
    /\ tasks = mocha_tasks
    /\ timerInterval = FALSE
    /\ timerShown = NoTimer
    /\ pc = "idle"
    /\ finalDuration \in TotalDurations
    /\ pointsEarned = 0
    /\ nextId = 1
    /\ uninterrupted = NoTime
    /\ stopRec = Null
    /\ stopAt = NoTime
    /\ lastOp = "none"
    /\ swActiveSession = Null
    /\ gamification = [c \in Contexts |-> Null]
    /\ messages = <<>>
    /\ serial = Null

\* calculateTotalSessionPoints for the session of finalDuration seconds on
\* tasks[1]; the session is the first of today when the last study date is
\* not today.  pointsEarned takes the itemized result.
EvalTotalPoints ==
    /\ lastOp = "none"
    /\ pointsEarned' =
           calculateTotalSessionPoints(finalDuration, tasks[1].completed,
                                       tasks[1].difficulty,
                                       mocha_gamification.currentStreak,
                                       mocha_gamification.lastStudyDate # IsoDate(now))
    /\ lastOp' = "total_points"
    /\ UNCHANGED <<now, tz, store, alarm, popup_open, activeSession, goals, tasks,
                   timerInterval, timerShown, pc, finalDuration, nextId,
                   uninterrupted, stopRec, stopAt>>
    /\ UNCHANGED running

NextTotalPoints == EvalTotalPoints

SpecTotalPoints == InitTotalPoints /\ [][NextTotalPoints]_vars

\* C21: the result of calculateTotalSessionPoints itemizes base, taskBonus,
\* difficultyBonus and streakBonus, and total is their sum; streakBonus is 0
\* when the session is not the first of today and otherwise the daily streak
\* bonus plus the milestone bonus, both of currentStreak + 1.
C21_TotalSessionPoints ==
    lastOp = "total_points" =>
        LET r == pointsEarned
            n == mocha_gamification.currentStreak + 1
            first == mocha_gamification.lastStudyDate # IsoDate(now)
            weeks == n \div 7 + 1
            daily == 2 * (IF weeks < 10 THEN weeks ELSE 10)
            milestone == CASE n = 7 -> 50 [] n = 14 -> 100 [] n = 30 -> 200
                           [] n = 60 -> 300 [] n = 90 -> 500 [] n = 365 -> 1000
                           [] OTHER -> 0
        IN  /\ DOMAIN r = {"base", "taskBonus", "difficultyBonus", "streakBonus",
                           "total"}
            /\ r.total = r.base + r.taskBonus + r.difficultyBonus + r.streakBonus
            /\ r.base + r.taskBonus + r.difficultyBonus
                   = calculateSessionPoints(finalDuration, tasks[1].completed,
                                            tasks[1].difficulty)
            /\ r.streakBonus = IF first THEN daily + milestone ELSE 0

\* The first session of the day after a 6-day streak: the streak becomes 7,
\* which pays 2 * 2 daily and the 50 of the first milestone.
C21_Witness ==
    /\ lastOp = "total_points"
    /\ mocha_gamification.currentStreak = 6
    /\ mocha_gamification.lastStudyDate # IsoDate(now)
    /\ finalDuration = 3600
    /\ tasks[1].completed /\ tasks[1].difficulty = "hard"
    /\ pointsEarned.streakBonus = 54
    /\ pointsEarned.total = 79

-----------------------------------------------------------------------------
(* calculations.js: calculateWeeklyProgress as a function *)

\* The offsets of local time from UTC, in ms: New York in winter, UTC, and
\* Central Europe in summer.
WeeklyTimeZones == {-(5 * MsPerHour), 0, 2 * MsPerHour}

\* A persisted session of a goal, started at startTime and lasting duration
\* seconds.
WeekSession(id, goalId, startTime, duration) ==
    createSession([goalId |-> goalId, startTime |-> startTime,
                   endTime |-> startTime + duration * millisecondsPerSecond,
                   duration |-> duration, mode |-> "free",
                   pomodorosCompleted |-> 0, taskId |-> NoTask,
                   taskCompleted |-> FALSE, pointsEarned |-> 0,
                   pausedDuration |-> 0, isManual |-> FALSE, notes |-> ""],
                  id, startTime + duration * millisecondsPerSecond)

\* Start instants around the week of T0 (Monday 1970-01-05 to Sunday
\* 1970-01-11): the Sunday before at noon, Monday at 10:00, the last Sunday
\* at 23:30 and the Monday after at 00:30, all UTC.
WeekSessionStarts ==
    {3 * MsPerDay + 12 * MsPerHour,
     T0,
     10 * MsPerDay + 23 * MsPerHour + MsPerHour \div 2,
     11 * MsPerDay + MsPerHour \div 2}

\* g9 is the id of a goal that is not in the goal list.
WeekGoalRefs == {"g1", "g9"}

WeekSessions(id) ==
    {WeekSession(id, g, st, 1800) : g \in WeekGoalRefs, st \in WeekSessionStarts}

WeekSessionLists ==
    {<<>>} \cup {<<s>> : s \in WeekSessions(1)}
           \cup {<<s, t>> : s \in WeekSessions(1), t \in WeekSessions(2)}

\* Tasks: open, completed inside or outside the week, and the two
\* inconsistent records: completed without a date, dated without completed.
WeekTasks(id) ==
    {Task(id, g, c) : g \in WeekGoalRefs,
                      c \in {NoTime, T0, 11 * MsPerDay + MsPerHour \div 2}}
    \cup {[Task(id, g, NoTime) EXCEPT !.completed = TRUE] : g \in WeekGoalRefs}
    \cup {[Task(id, g, T0) EXCEPT !.completed = FALSE] : g \in WeekGoalRefs}

WeekTaskLists ==
    {<<>>} \cup {<<a>> : a \in WeekTasks("t1")}
           \cup {<<a, b>> : a \in WeekTasks("t1"), b \in WeekTasks("t2")}

WeekGoalLists == {<<Goal("g1", FALSE)>>, <<Goal("g1", FALSE), Goal("g2", FALSE)>>}

\* The date-only week start the caller asks for: the local calendar day on
\* which the week of `now` starts under the weekStartDay setting.
RequestedWeekStart ==
    LocalDay(getWeekStart(now, mocha_settings.weekStartDay, tz), tz)

InitWeeklyProgress ==
    /\ now = T0
    /\ tz \in WeeklyTimeZones
    /\ mocha_goals \in WeekGoalLists
    /\ mocha_tasks \in WeekTaskLists
    /\ mocha_sessions \in WeekSessionLists
    /\ mocha_active_session = Null
    /\ mocha_gamification = createGamification
    /\ mocha_weekly_progress = Null
    /\ mocha_settings \in {[createSettings EXCEPT !.weekStartDay = d] :
                           d \in {"monday", "sunday"}}
    /\ alarm = FALSE
    /\ popup_open = FALSE
    /\ activeSession = Null
    /\ goals = mocha_goals
    /\ tasks = mocha_tasks
    /\ timerInterval = FALSE
    /\ timerShown = NoTimer
    /\ pc = "idle"
    /\ finalDuration = 0
    /\ pointsEarned = 0
    /\ nextId = 1
    /\ uninterrupted = NoTime
    /\ stopRec = Null
    /\ stopAt = NoTime
    /\ lastOp = "none"
    /\ swActiveSession = Null
    /\ gamification = [c \in Contexts |-> Null]
    /\ messages = <<>>
    /\ serial = Null

\* A faulty variant with hidden state: a later call adds onto the hours of
\* the result before.
EvalWeeklyProgress_accumulates ==
    /\ lastOp \in {"none", "weekly_progress"}
    /\ LET r == calculateWeeklyProgress(mocha_sessions, tasks, goals,
                                        RequestedWeekStart, tz)
       IN  mocha_weekly_progress' =
               IF mocha_weekly_progress = Null THEN r
               ELSE [r EXCEPT !.totalHours = @ + mocha_weekly_progress.totalHours]
    /\ lastOp' = IF lastOp = "none" THEN "weekly_progress"
                 ELSE "weekly_progress_again"
    /\ UNCHANGED <<now, tz, mocha_goals, mocha_tasks, mocha_sessions,
                   mocha_active_session, mocha_gamification, mocha_settings,
                   alarm, popup, nextId, uninterrupted, stopRec, stopAt>>
    /\ UNCHANGED running

\* calculateWeeklyProgress(sessions, tasks, goals, weekStart), called once and
\* then once more with the same arguments; the cache slot takes the result.
\* The function assigns to none of its arguments and reads no variable of
\* its module.
EvalWeeklyProgress ==
    /\ lastOp \in {"none", "weekly_progress"}
    /\ mocha_weekly_progress' =
           calculateWeeklyProgress(mocha_sessions, tasks, goals,
                                   RequestedWeekStart, tz)
    /\ lastOp' = IF lastOp = "none" THEN "weekly_progress"
                 ELSE "weekly_progress_again"
    /\ UNCHANGED <<now, tz, mocha_goals, mocha_tasks, mocha_sessions,
                   mocha_active_session, mocha_gamification, mocha_settings,
                   alarm, popup, nextId, uninterrupted, stopRec, stopAt>>
    /\ UNCHANGED running

NextWeeklyProgress == EvalWeeklyProgress

SpecWeeklyProgress == InitWeeklyProgress /\ [][NextWeeklyProgress]_vars

C24_WeekEndSixDaysLater ==
    lastOp = "weekly_progress" =>
        /\ mocha_weekly_progress.weekStart = RequestedWeekStart
        /\ mocha_weekly_progress.weekEnd = mocha_weekly_progress.weekStart + 6

\* C25: a session or a completed task whose goal id is not in the goal list
\* adds nothing to any per-goal entry or to the totals, and the computation
\* still returns: the result equals the result without those records, and it
\* has one entry per goal of the list.  A task counts only when completed is
\* true, completedAt is set and the completion date lies in the week.
C25_DanglingSkipped ==
    lastOp = "weekly_progress" =>
        LET wp == mocha_weekly_progress
            known == GoalIds(goals)
            Counts(t) == /\ t.completed
                         /\ t.completedAt # NoTime
                         /\ IsoDate(t.completedAt) >= wp.weekStart
                         /\ IsoDate(t.completedAt) <= wp.weekEnd
        IN  /\ wp = calculateWeeklyProgress(
                        SelectSeq(mocha_sessions, LAMBDA s : s.goalId \in known),
                        SelectSeq(tasks, LAMBDA t : t.goalId \in known),
                        goals, RequestedWeekStart, tz)
            /\ DOMAIN wp.goals = known
            /\ \A g \in known :
                   wp.goals[g].tasksCompleted =
                       Cardinality({i \in DOMAIN tasks :
                                      Counts(tasks[i]) /\ tasks[i].goalId = g})
            /\ wp.totalTasks =
                   Cardinality({i \in DOMAIN tasks :
                                  Counts(tasks[i]) /\ tasks[i].goalId \in known})

\* A session and a completed task of the missing goal, both in the week,
\* next to nothing else: every count stays 0.
C25_Witness ==
    /\ lastOp = "weekly_progress"
    /\ tz = 0
    /\ mocha_settings.weekStartDay = "monday"
    /\ Len(mocha_sessions) = 1
    /\ mocha_sessions[1].goalId = "g9" /\ mocha_sessions[1].startTime = T0
    /\ Len(tasks) = 1
    /\ tasks[1].goalId = "g9" /\ tasks[1].completed /\ tasks[1].completedAt = T0
    /\ mocha_weekly_progress.totalHours = 0
    /\ mocha_weekly_progress.totalTasks = 0

-----------------------------------------------------------------------------
(* popup.js over two weeks: saved sessions, loadWeeklyProgress, reloadGoals *)

\* Bound: the sessions persisted in one run.
MaxWeekSessions == 2

\* The instants the clock visits: Monday 10:00 of the first week, its Sunday
\* at 10:00 and at 23:30, and Monday 00:30 and 10:00 of the week after (UTC).
WeekInstants ==
    {T0,
     10 * MsPerDay + 10 * MsPerHour,
     10 * MsPerDay + 23 * MsPerHour + MsPerHour \div 2,
     11 * MsPerDay + MsPerHour \div 2,
     11 * MsPerDay + 10 * MsPerHour}

\* The popup has been opened once at T0, before any session: the cache slot
\* holds the progress of the first week.
InitWeek ==
    /\ now = T0
    /\ tz \in WeeklyTimeZones
    /\ mocha_goals = <<Goal("g1", FALSE), Goal("g2", FALSE)>>
    /\ mocha_tasks = <<Task("t1", "g1", NoTime)>>
    /\ mocha_sessions = <<>>
    /\ mocha_active_session = Null
    /\ mocha_gamification = createGamification
    /\ mocha_weekly_progress =
           loadWeeklyProgress(Null, <<>>, mocha_tasks, mocha_goals, T0, tz)
    /\ mocha_settings = createSettings
    /\ alarm = FALSE
    /\ popup_open = TRUE
    /\ activeSession = Null
    /\ goals = mocha_goals
    /\ tasks = mocha_tasks
    /\ timerInterval = FALSE
    /\ timerShown = NoTimer
    /\ pc = "idle"
    /\ finalDuration = 0
    /\ pointsEarned = 0
    /\ nextId = 1
    /\ uninterrupted = NoTime
    /\ stopRec = Null
    /\ stopAt = NoTime
    /\ lastOp = "init"
    /\ swActiveSession = Null
    /\ gamification = [c \in Contexts |-> Null]
    /\ messages = <<>>
    /\ serial = Null

WeekAdvance ==
    /\ \E t \in WeekInstants : t > now /\ now' = t
    /\ lastOp' = "tick"
    /\ UNCHANGED <<tz, store, alarm, popup, nextId, uninterrupted, stopRec, stopAt>>
    /\ UNCHANGED running

\* saveSession(session) of a session of half an hour that started now.
WeekSaveSession ==
    /\ Len(mocha_sessions) < MaxWeekSessions
    /\ \E g \in {"g1", "g2"} :
           mocha_sessions' =
               saveSession(mocha_sessions, WeekSession(nextId, g, now, 1800), TRUE)
    /\ nextId' = nextId + 1
    /\ lastOp' = "save"
    /\ UNCHANGED <<now, tz, mocha_goals, mocha_tasks, mocha_active_session,
                   mocha_gamification, mocha_weekly_progress, mocha_settings,
                   alarm, popup, uninterrupted, stopRec, stopAt>>
    /\ UNCHANGED running

\* loadWeeklyProgress() of the popup, with its goals and tasks.
WeekLoadWeeklyProgress ==
    /\ mocha_weekly_progress' =
           loadWeeklyProgress(mocha_weekly_progress, mocha_sessions, tasks, goals,
                              now, tz)
    /\ lastOp' = "load"
    /\ UNCHANGED <<now, tz, mocha_goals, mocha_tasks, mocha_sessions,
                   mocha_active_session, mocha_gamification, mocha_settings,
                   alarm, popup, nextId, uninterrupted, stopRec, stopAt>>
    /\ UNCHANGED running

\* reloadGoals() of the popup.
WeekReloadGoals ==
    /\ goals' = NotArchived(mocha_goals)
    /\ tasks' = mocha_tasks
    /\ mocha_weekly_progress' =
           reloadGoals(mocha_sessions, mocha_tasks, NotArchived(mocha_goals),
                       now, tz)
    /\ lastOp' = "reload"
    /\ UNCHANGED <<now, tz, mocha_goals, mocha_tasks, mocha_sessions,
                   mocha_active_session, mocha_gamification, mocha_settings,
                   alarm, popup_open, activeSession, timerInterval, timerShown,
                   pc, finalDuration, pointsEarned, nextId, uninterrupted,
                   stopRec, stopAt>>
    /\ UNCHANGED running

NextWeek ==
    \/ WeekAdvance
    \/ WeekSaveSession
    \/ WeekLoadWeeklyProgress
    \/ WeekReloadGoals

SpecWeek == InitWeek /\ [][NextWeek]_vars

\* C23: the weekly progress the popup computes counts, for each goal of its
\* list, every persisted session of the goal whose start date lies in
\* [weekStart, weekEnd], both ends included, whatever the time of day on the
\* last day.
C23_CountsWholeWeek ==
    lastOp = "reload" =>
        LET wp == mocha_weekly_progress
            InWeek(s) == /\ IsoDate(s.startTime) >= wp.weekStart
                         /\ IsoDate(s.startTime) <= wp.weekEnd
        IN  \A g \in GoalIds(goals) :
                wp.goals[g].hoursCompleted =
                    RoundDiv(100 * SumInts([i \in DOMAIN mocha_sessions |->
                                 IF InWeek(mocha_sessions[i])
                                    /\ mocha_sessions[i].goalId = g
                                 THEN mocha_sessions[i].duration ELSE 0]),
                             secondsPerHour)

\* C26: the persisted weekly progress is used only when its weekStart is the
\* start of the week asked for now: getWeeklyProgress returns null for any
\* other record, and loadWeeklyProgress then computes the progress anew from
\* the sessions, tasks and goals and writes that over the cache; a record of
\* the current week is kept as it is.
C26_CacheOnlyForRequestedWeek ==
    [][lastOp' = "load" =>
         LET range == getCurrentWeekRange(now, "monday", tz)
             valid == /\ mocha_weekly_progress # Null
                      /\ mocha_weekly_progress.weekStart = range.start
         IN  /\ getWeeklyProgress(mocha_weekly_progress, now, tz)
                    = IF valid THEN mocha_weekly_progress ELSE Null
             /\ mocha_weekly_progress'.weekStart = range.start
             /\ IF valid
                THEN mocha_weekly_progress' = mocha_weekly_progress
                ELSE mocha_weekly_progress' =
                         calculateWeeklyProgress(
                             getSessionsByDateRange(mocha_sessions, range.start,
                                                    range.end),
                             tasks, goals, range.start, tz)]_vars

\* The popup loads the progress in the second week: the record of the first
\* week, with its two sessions, is gone and the counts start from 0.
C26_Witness ==
    /\ lastOp = "load"
    /\ tz = 0
    /\ now = 11 * MsPerDay + 10 * MsPerHour
    /\ Len(mocha_sessions) = 2
    /\ mocha_sessions[1].startTime = T0 /\ mocha_sessions[2].startTime = T0
    /\ mocha_weekly_progress.weekStart = 11
    /\ mocha_weekly_progress.totalHours = 0

-----------------------------------------------------------------------------
(* storage.js deleteGoal, called from the popup's goal menu *)

\* Bound: the sessions saved in one run.
MaxGoalSessions == 2

\* deleteGoal(id): the lists written to the tasks slot and the goals slot.
deleteGoal(gs, ts, id) ==
    [goals |-> SelectSeq(gs, LAMBDA g : g.id # id),
     tasks |-> SelectSeq(ts, LAMBDA t : t.goalId # id)]

InitGoals ==
    /\ now = T0
    /\ tz \in TimeZones
    /\ mocha_goals = <<Goal("g1", FALSE), Goal("g2", FALSE)>>
    /\ mocha_tasks = <<Task("t1", "g1", NoTime), Task("t2", "g2", T0)>>
    /\ mocha_sessions = <<>>
    /\ mocha_active_session = Null
    /\ mocha_gamification = createGamification
    /\ mocha_weekly_progress = Null
    /\ mocha_settings = createSettings
    /\ alarm = FALSE
    /\ popup_open = TRUE
    /\ activeSession = Null
    /\ goals = mocha_goals
    /\ tasks = mocha_tasks
    /\ timerInterval = FALSE
    /\ timerShown = NoTimer
    /\ pc = "idle"
    /\ finalDuration = 0
    /\ pointsEarned = 0
    /\ nextId = 1
    /\ uninterrupted = NoTime
    /\ stopRec = Null
    /\ stopAt = NoTime
    /\ lastOp = "init"
    /\ swActiveSession = Null
    /\ gamification = [c \in Contexts |-> Null]
    /\ messages = <<>>
    /\ serial = Null

\* saveSession(session) of a session on one of the goals the popup lists.
GoalsSaveSession ==
    /\ nextId <= MaxGoalSessions
    /\ \E g \in GoalIds(goals) :
           mocha_sessions' =
               saveSession(mocha_sessions, WeekSession(nextId, g, now, 1800), TRUE)
    /\ nextId' = nextId + 1
    /\ lastOp' = "save_session"
    /\ UNCHANGED <<now, tz, mocha_goals, mocha_tasks, mocha_active_session,
                   mocha_gamification, mocha_weekly_progress, mocha_settings,
                   alarm, popup, uninterrupted, stopRec, stopAt>>
    /\ UNCHANGED running

\* saveGoal(goal), then reloadGoals(): a goal is created or created again.
GoalsSaveGoal ==
    /\ \E id \in {"g1", "g2"} :
           mocha_goals' = saveGoal(mocha_goals, Goal(id, FALSE), TRUE)
    /\ goals' = NotArchived(mocha_goals')
    /\ tasks' = mocha_tasks
    /\ mocha_weekly_progress' =
           reloadGoals(mocha_sessions, mocha_tasks, goals', now, tz)
    /\ lastOp' = "save_goal"
    /\ UNCHANGED <<now, tz, mocha_tasks, mocha_sessions, mocha_active_session,
                   mocha_gamification, mocha_settings, alarm, popup_open,
                   activeSession, timerInterval, timerShown, pc, finalDuration,
                   pointsEarned, nextId, uninterrupted, stopRec, stopAt>>
    /\ UNCHANGED running

\* saveTask(task), then reloadGoals(): a task is added to a listed goal.
GoalsSaveTask ==
    /\ \E id \in {"t1", "t2"}, g \in GoalIds(goals) :
           mocha_tasks' = saveTask(mocha_tasks, Task(id, g, NoTime), TRUE)
    /\ goals' = NotArchived(mocha_goals)
    /\ tasks' = mocha_tasks'
    /\ mocha_weekly_progress' =
           reloadGoals(mocha_sessions, mocha_tasks', goals', now, tz)
    /\ lastOp' = "save_task"
    /\ UNCHANGED <<now, tz, mocha_goals, mocha_sessions, mocha_active_session,
                   mocha_gamification, mocha_settings, alarm, popup_open,
                   activeSession, timerInterval, timerShown, pc, finalDuration,
                   pointsEarned, nextId, uninterrupted, stopRec, stopAt>>
    /\ UNCHANGED running

\* A faulty variant that also removes the sessions of the goal, as the
\* comment above deleteGoal announces.
handleDeleteGoal_cascadesSessions ==
    /\ \E openMenuGoalId \in GoalIds(goals) :
         LET d == deleteGoal(mocha_goals, mocha_tasks, openMenuGoalId)
         IN  /\ mocha_tasks' = d.tasks
             /\ mocha_goals' = d.goals
             /\ mocha_sessions' =
                    SelectSeq(mocha_sessions, LAMBDA s : s.goalId # openMenuGoalId)
    /\ goals' = NotArchived(mocha_goals')
    /\ tasks' = mocha_tasks'
    /\ mocha_weekly_progress' =
           reloadGoals(mocha_sessions', mocha_tasks', goals', now, tz)
    /\ lastOp' = "delete_goal"
    /\ UNCHANGED <<now, tz, mocha_active_session, mocha_gamification,
                   mocha_settings, alarm, popup_open, activeSession,
                   timerInterval, timerShown, pc, finalDuration, pointsEarned,
                   nextId, uninterrupted, stopRec, stopAt>>
    /\ UNCHANGED running

\* handleDeleteGoal() of the popup, confirmed: deleteGoal(openMenuGoalId) for
\* a goal of the popup's list, then reloadGoals().
handleDeleteGoal ==
    /\ \E openMenuGoalId \in GoalIds(goals) :
         LET d == deleteGoal(mocha_goals, mocha_tasks, openMenuGoalId)
         IN  /\ mocha_tasks' = d.tasks
             /\ mocha_goals' = d.goals
    /\ goals' = NotArchived(mocha_goals')
    /\ tasks' = mocha_tasks'
    /\ mocha_weekly_progress' =
           reloadGoals(mocha_sessions, mocha_tasks', goals', now, tz)
    /\ lastOp' = "delete_goal"
    /\ UNCHANGED <<now, tz, mocha_sessions, mocha_active_session,
                   mocha_gamification, mocha_settings, alarm, popup_open,
                   activeSession, timerInterval, timerShown, pc, finalDuration,
                   pointsEarned, nextId, uninterrupted, stopRec, stopAt>>
    /\ UNCHANGED running

\* clearAllData(): every key is removed; the popup is opened again on the
\* empty storage.
clearAllData ==
    /\ lastOp # "clear"
    /\ mocha_goals' = <<>>
    /\ mocha_tasks' = <<>>
    /\ mocha_sessions' = <<>>
    /\ mocha_active_session' = Null
    /\ mocha_gamification' = createGamification
    /\ mocha_weekly_progress' = Null
    /\ mocha_settings' = createSettings
    /\ goals' = <<>>
    /\ tasks' = <<>>
    /\ lastOp' = "clear"
    /\ UNCHANGED <<now, tz, alarm, popup_open, activeSession, timerInterval,
                   timerShown, pc, finalDuration, pointsEarned, nextId,
                   uninterrupted, stopRec, stopAt>>
    /\ UNCHANGED running

NextGoals ==
    \/ GoalsSaveSession
    \/ GoalsSaveGoal
    \/ GoalsSaveTask
    \/ handleDeleteGoal
    \/ clearAllData

SpecGoals == InitGoals /\ [][NextGoals]_vars

-----------------------------------------------------------------------------
(* calculations.js: getWeekStart and getWeekEnd as functions *)

\* The dates handed to getWeekStart: two weeks of days, each early, at noon
\* and late (UTC).
WeekRangeDates ==
    {d * MsPerDay + h : d \in 3 .. 16,
                        h \in {MsPerHour \div 2, 12 * MsPerHour,
                               23 * MsPerHour + MsPerHour \div 2}}

InitWeekRange ==
    /\ now \in WeekRangeDates
    /\ tz \in WeeklyTimeZones
    /\ mocha_goals = <<>>
    /\ mocha_tasks = <<>>
    /\ mocha_sessions = <<>>
    /\ mocha_active_session = Null
    /\ mocha_gamification = createGamification
    /\ mocha_weekly_progress = Null
    /\ mocha_settings \in {[createSettings EXCEPT !.weekStartDay = d] :
                           d \in {"monday", "sunday"}}
    /\ alarm = FALSE
    /\ popup_open = FALSE
    /\ activeSession = Null
    /\ goals = <<>>
    /\ tasks = <<>>
    /\ timerInterval = FALSE
    /\ timerShown = NoTimer
    /\ pc = "idle"
    /\ finalDuration = 0
    /\ pointsEarned = 0
    /\ nextId = 1
    /\ uninterrupted = NoTime
    /\ stopRec = Null
    /\ stopAt = NoTime
    /\ lastOp = "none"
    /\ swActiveSession = Null
    /\ gamification = [c \in Contexts |-> Null]
    /\ messages = <<>>
    /\ serial = Null

\* getWeekStart(new Date(), weekStartDay) and getWeekEnd(new Date(),
\* weekStartDay); the history keeps the two Date values returned.
EvalWeekRange ==
    /\ lastOp = "none"
    /\ stopRec' = [start |-> getWeekStart(now, mocha_settings.weekStartDay, tz),
                   end   |-> getWeekEnd(now, mocha_settings.weekStartDay, tz)]
    /\ lastOp' = "week_range"
    /\ UNCHANGED <<now, tz, store, alarm, popup, nextId, uninterrupted, stopAt>>
    /\ UNCHANGED running

NextWeekRange == EvalWeekRange

SpecWeekRange == InitWeekRange /\ [][NextWeekRange]_vars

\* C28: getWeekStart(date, startDay) is local midnight of a day that is at
\* most 6 days before the day of date and is a Monday for Monday-start and a
\* Sunday for Sunday-start: for Monday-start it lies 6 days back from a
\* Sunday and dayOfWeek - 1 days back otherwise, for Sunday-start dayOfWeek
\* days back.  getWeekEnd is on the day six days after it, at 23:59:59.999.
C28_WeekStart ==
    lastOp = "week_range" =>
        LET day == (now + tz) \div MsPerDay
            dayOfWeek == (day + 4) % 7
            monday == mocha_settings.weekStartDay = "monday"
            back == IF monday THEN (IF dayOfWeek = 0 THEN 6 ELSE dayOfWeek - 1)
                    ELSE dayOfWeek
            startDay == (stopRec.start + tz) \div MsPerDay
        IN  /\ (stopRec.start + tz) % MsPerDay = 0
            /\ day - startDay \in 0 .. 6
            /\ day - startDay = back
            /\ (startDay + 4) % 7 = IF monday THEN 1 ELSE 0
            /\ stopRec.end + tz = (startDay + 6) * MsPerDay + MsPerDay - 1

\* Sunday 1970-01-11 at noon, Monday-start: the week began on Monday
\* 1970-01-05 and ends on that Sunday.
C28_Witness ==
    /\ lastOp = "week_range"
    /\ tz = 0
    /\ now = 10 * MsPerDay + 12 * MsPerHour
    /\ mocha_settings.weekStartDay = "monday"
    /\ stopRec.start = 4 * MsPerDay
    /\ stopRec.end = 11 * MsPerDay - 1

-----------------------------------------------------------------------------
(* The weekly reset: resetWeeklyPoints of storage.js and the alarm handler *)

\* resetWeeklyPoints(): the record written; the default record when none is
\* stored.
resetWeeklyPoints(slot) ==
    [getGamification(slot) EXCEPT !.pointsThisWeek = 0]

\* A faulty variant that starts the week with an empty balance as well.
handleWeeklyReset_resetsTotal(slot) ==
    IF slot # Null THEN [slot EXCEPT !.pointsThisWeek = 0, !.totalPoints = 0]
    ELSE slot

\* handleWeeklyReset() of the service worker: the slot afterwards; nothing is
\* written when no record is stored.
handleWeeklyReset(slot) ==
    IF slot # Null THEN [slot EXCEPT !.pointsThisWeek = 0] ELSE slot

\* No record yet, or the record of a user with a streak.
InitReset ==
    /\ now = T0
    /\ tz \in TimeZones
    /\ mocha_goals = <<>>
    /\ mocha_tasks = <<>>
    /\ mocha_sessions = <<>>
    /\ mocha_active_session = Null
    /\ mocha_gamification \in
           {Null,
            [createGamification EXCEPT !.currentStreak = 3, !.longestStreak = 5,
                                       !.lastStudyDate = IsoDate(T0) - 1]}
    /\ mocha_weekly_progress = Null
    /\ mocha_settings = createSettings
    /\ alarm = FALSE
    /\ popup_open = FALSE
    /\ activeSession = Null
    /\ goals = <<>>
    /\ tasks = <<>>
    /\ timerInterval = FALSE
    /\ timerShown = NoTimer
    /\ pc = "idle"
    /\ finalDuration = 0
    /\ pointsEarned = 0
    /\ nextId = 1
    /\ uninterrupted = NoTime
    /\ stopRec = Null
    /\ stopAt = NoTime
    /\ lastOp = "none"
    /\ swActiveSession = Null
    /\ gamification = [c \in Contexts |-> Null]
    /\ messages = <<>>
    /\ serial = Null

\* updatePoints(amount) during the week.
ResetUpdatePoints ==
    /\ \E amount \in PointAmounts :
         /\ amount > 0 =>
                getGamification(mocha_gamification).lifetimePoints < MaxLifetimePoints
         /\ pointsEarned' = amount
         /\ mocha_gamification' = updatePoints(mocha_gamification, amount)
    /\ lastOp' = "points"
    /\ UNCHANGED <<now, tz, mocha_goals, mocha_tasks, mocha_sessions,
                   mocha_active_session, mocha_weekly_progress, mocha_settings,
                   alarm, popup_open, activeSession, goals, tasks, timerInterval,
                   timerShown, pc, finalDuration, nextId, uninterrupted, stopRec,
                   stopAt>>
    /\ UNCHANGED running

\* A call of resetWeeklyPoints().
ResetWeeklyPointsCall ==
    /\ mocha_gamification' = resetWeeklyPoints(mocha_gamification)
    /\ lastOp' = "reset_helper"
    /\ UNCHANGED <<now, tz, mocha_goals, mocha_tasks, mocha_sessions,
                   mocha_active_session, mocha_weekly_progress, mocha_settings,
                   alarm, popup, nextId, uninterrupted, stopRec, stopAt>>
    /\ UNCHANGED running

\* The weekly-reset alarm fires: handleAlarm calls handleWeeklyReset().
WeeklyResetAlarm ==
    /\ mocha_gamification' = handleWeeklyReset(mocha_gamification)
    /\ lastOp' = "reset_alarm"
    /\ UNCHANGED <<now, tz, mocha_goals, mocha_tasks, mocha_sessions,
                   mocha_active_session, mocha_weekly_progress, mocha_settings,
                   alarm, popup, nextId, uninterrupted, stopRec, stopAt>>
    /\ UNCHANGED running

NextReset ==
    \/ ResetUpdatePoints
    \/ ResetWeeklyPointsCall
    \/ WeeklyResetAlarm

SpecReset == InitReset /\ [][NextReset]_vars

\* C29: on a stored gamification record the weekly reset, through the
\* storage helper as through the alarm handler, sets pointsThisWeek to 0 and
\* leaves totalPoints, lifetimePoints, currentStreak, longestStreak and
\* lastStudyDate as they were; a reset of a record whose pointsThisWeek is
\* already 0, as after an earlier reset, changes nothing.
C29_WeeklyReset ==
    [][(lastOp' \in {"reset_helper", "reset_alarm"} /\ mocha_gamification # Null)
       => /\ mocha_gamification'.pointsThisWeek = 0
          /\ mocha_gamification'.totalPoints = mocha_gamification.totalPoints
          /\ mocha_gamification'.lifetimePoints = mocha_gamification.lifetimePoints
          /\ mocha_gamification'.currentStreak = mocha_gamification.currentStreak
          /\ mocha_gamification'.longestStreak = mocha_gamification.longestStreak
          /\ mocha_gamification'.lastStudyDate = mocha_gamification.lastStudyDate
          /\ mocha_gamification.pointsThisWeek = 0
             => mocha_gamification' = mocha_gamification]_vars

\* The alarm has reset a record with 35 points and a streak of 3 days.
C29_Witness ==
    /\ lastOp = "reset_alarm"
    /\ mocha_gamification # Null
    /\ mocha_gamification.totalPoints = 35
    /\ mocha_gamification.lifetimePoints = 35
    /\ mocha_gamification.pointsThisWeek = 0
    /\ mocha_gamification.currentStreak = 3

-----------------------------------------------------------------------------
(* One session under begin, pause and resume, on a clock of milliseconds *)

\* The instants the clock visits, as offsets from T0 in ms: a pause after
\* exactly 2 s and a resume 1.816 s later are among them.
SessionOffsets == {0, 2000, 3816, 4816, 5000}
SessionInstants == {T0 + o : o \in SessionOffsets}

\* Time passes; the stopwatch of the history counts it while the stored
\* session is running.
SessionAdvance ==
    /\ \E t \in SessionInstants : t > now /\ now' = t
    /\ uninterrupted' =
           IF mocha_active_session # Null /\ mocha_active_session.pausedAt = NoTime
           THEN uninterrupted + (now' - now)
           ELSE uninterrupted
    /\ UNCHANGED <<tz, store, alarm, popup, nextId, stopRec, stopAt, lastOp>>
    /\ UNCHANGED running

NextSession ==
    \/ SessionAdvance
    \/ PopupInit
    \/ handleBeginSession
    \/ handlePauseSession

SpecSession == Init /\ [][NextSession]_vars

\* C30: after any begin, pauses, resumes and clock advances, the elapsed time
\* of the session is the whole seconds of the time the session has been
\* running since begin; it never decreases while the session lasts, and a
\* resume leaves it as it was at that instant.
C30_ElapsedIsRunningTime ==
    [][mocha_active_session' # Null =>
         LET elapsed == calculateElapsedTime(mocha_active_session, now)
             elapsedAfter == calculateElapsedTime(mocha_active_session', now')
             sameSession ==
                 /\ mocha_active_session # Null
                 /\ mocha_active_session'.startTime = mocha_active_session.startTime
         IN  /\ elapsedAfter = Max(0, uninterrupted' \div millisecondsPerSecond)
             /\ sameSession => elapsedAfter >= elapsed
             /\ (/\ sameSession
                 /\ mocha_active_session.pausedAt # NoTime
                 /\ mocha_active_session'.pausedAt = NoTime)
                => elapsedAfter = elapsed]_vars

-----------------------------------------------------------------------------
(* The popup's pause button and the worker's idle auto-pause, interleaved *)

\* The messages that may wait for the popup's listener at one time.
MaxMessages == 1

RaceOffsets == {0, 1000, 2000, 3000}
RaceInstants == {T0 + o : o \in RaceOffsets}

\* A session begun at T0 is stored; the popup is closed and no handler runs.
InitRace ==
    /\ now = T0
    /\ tz \in TimeZones
    /\ mocha_goals = <<Goal("g1", FALSE)>>
    /\ mocha_tasks = <<>>
    /\ mocha_sessions = <<>>
    /\ mocha_active_session = createActiveSession("g1", NoTask, "free", T0)
    /\ mocha_gamification = createGamification
    /\ mocha_weekly_progress = Null
    /\ \E enabled \in BOOLEAN :
         mocha_settings = [createSettings EXCEPT !.idleDetection.enabled = enabled]
    /\ alarm = TRUE
    /\ popup_open = FALSE
    /\ activeSession = Null
    /\ goals = <<>>
    /\ tasks = <<>>
    /\ timerInterval = FALSE
    /\ timerShown = NoTimer
    /\ pc = "idle"
    /\ finalDuration = 0
    /\ pointsEarned = 0
    /\ nextId = 1
    /\ uninterrupted = 0
    /\ stopRec = Null
    /\ stopAt = NoTime
    /\ lastOp = "none"
    /\ swActiveSession = Null
    /\ gamification = [c \in Contexts |-> Null]
    /\ messages = <<>>
    /\ serial = Null

RaceAdvance ==
    /\ \E t \in RaceInstants : t > now /\ now' = t
    /\ uninterrupted' =
           IF mocha_active_session # Null /\ mocha_active_session.pausedAt = NoTime
           THEN uninterrupted + (now' - now)
           ELSE uninterrupted
    /\ UNCHANGED <<tz, store, alarm, popup, nextId, stopRec, stopAt, lastOp,
                   running>>

\* handleIdleStateChange(state) up to the answer of getActiveSession().  The
\* handler goes on only for an idle or locked state, with idle detection
\* enabled and a session that is not paused; it then holds the record it
\* read.  In every other case it returns, or only shows a notification.
IdleRead ==
    /\ swActiveSession = Null
    /\ Len(messages) < MaxMessages
    /\ \E state \in IdleStates :
         IF /\ mocha_settings.idleDetection.enabled
            /\ mocha_active_session # Null
            /\ state \in {"idle", "locked"}
            /\ mocha_active_session.pausedAt = NoTime
         THEN /\ swActiveSession' = mocha_active_session
              /\ lastOp' = "idle_read"
         ELSE /\ UNCHANGED swActiveSession
              /\ lastOp' = "idle_return"
    /\ UNCHANGED <<now, tz, store, alarm, popup, nextId, uninterrupted,
                   stopRec, stopAt, gamification, messages,
                   serial>>

\* The handler continues after the await: it stamps its copy with the
\* current time and hands it to saveActiveSession.
IdleStamp ==
    /\ swActiveSession # Null
    /\ swActiveSession.pausedAt = NoTime
    /\ swActiveSession' = AutoPauseRecord(swActiveSession, now)
    /\ lastOp' = "idle_stamp"
    /\ UNCHANGED <<now, tz, store, alarm, popup, nextId, uninterrupted,
                   stopRec, stopAt, gamification, messages,
                   serial>>

\* saveActiveSession writes the worker's copy; SESSION_AUTO_PAUSED is then
\* sent, and is lost when no popup is open to receive it.
IdleWrite ==
    /\ swActiveSession # Null
    /\ swActiveSession.pausedAt # NoTime
    /\ mocha_active_session' = swActiveSession
    /\ messages' = IF popup_open
                   THEN Append(messages, [type |-> "SESSION_AUTO_PAUSED",
                                          session |-> swActiveSession])
                   ELSE messages
    /\ swActiveSession' = Null
    /\ lastOp' = "idle_write"
    /\ UNCHANGED <<now, tz, mocha_goals, mocha_tasks, mocha_sessions,
                   mocha_gamification, mocha_weekly_progress, mocha_settings,
                   alarm, popup, nextId, uninterrupted, stopRec, stopAt,
                   gamification, serial>>

\* The popup's chrome.runtime.onMessage listener, case SESSION_AUTO_PAUSED.
onMessage ==
    /\ popup_open
    /\ messages # <<>>
    /\ Head(messages).type = "SESSION_AUTO_PAUSED"
    /\ activeSession' = Head(messages).session
    /\ messages' = Tail(messages)
    /\ lastOp' = "message"
    /\ UNCHANGED <<now, tz, store, alarm, popup_open, goals, tasks,
                   timerInterval, timerShown, pc, finalDuration, pointsEarned,
                   nextId, uninterrupted, stopRec, stopAt, swActiveSession,
                   gamification, serial>>

NextRace ==
    \/ RaceAdvance
    \/ PopupInit
    \/ handlePauseSession
    \/ IdleRead
    \/ IdleStamp
    \/ IdleWrite
    \/ onMessage

SpecRace == InitRace /\ [][NextRace]_vars

\* C31: however the popup's pause and resume and the worker's auto-pause
\* interleave, the stored totalPausedDuration never decreases during the
\* session, and a stored pausedAt is never replaced by a later one.
C31_NoLostUpdate ==
    [][(mocha_active_session # Null /\ mocha_active_session' # Null) =>
         /\ mocha_active_session'.totalPausedDuration
                >= mocha_active_session.totalPausedDuration
         /\ (/\ mocha_active_session.pausedAt # NoTime
             /\ mocha_active_session'.pausedAt # NoTime)
            => mocha_active_session'.pausedAt <= mocha_active_session.pausedAt]_vars

-----------------------------------------------------------------------------
(* The gamification slot, read and written back from three contexts *)

\* The points one run may award in all.
MaxAwarded == 10

SessionAward == 5
ItemPrice == 5

\* The record after the first stop of the day that earned SessionAward, or
\* no record yet.
InitGamification ==
    /\ now = T0
    /\ tz = 0
    /\ mocha_goals = <<>>
    /\ mocha_tasks = <<>>
    /\ mocha_sessions = <<>>
    /\ mocha_active_session = Null
    /\ mocha_gamification \in
           {Null,
            updateStreak(updatePoints(Null, SessionAward), T0 - MsPerDay, MsPerDay)}
    /\ mocha_weekly_progress = Null
    /\ mocha_settings = createSettings
    /\ alarm = FALSE
    /\ popup_open = TRUE
    /\ activeSession = Null
    /\ goals = <<>>
    /\ tasks = <<>>
    /\ timerInterval = FALSE
    /\ timerShown = NoTimer
    /\ pc = "idle"
    /\ finalDuration = 0
    /\ pointsEarned = 0
    /\ nextId = 1
    /\ uninterrupted = NoTime
    /\ stopRec = Null
    /\ stopAt = NoTime
    /\ lastOp = "none"
    /\ swActiveSession = Null
    /\ gamification = [c \in Contexts |-> Null]
    /\ messages = <<>>
    /\ serial = getGamification(mocha_gamification)

\* updatePoints(amount) up to its call of set: the record is read and
\* changed.  The popup awards the points of a stopped session; the shop
\* page deducts the price of an item the shown balance can afford.
updatePointsGet ==
    /\ \E c \in {"popup", "shop"} :
         /\ gamification[c] = Null
         /\ LET amount == IF c = "popup" THEN SessionAward ELSE -ItemPrice
            IN  /\ amount > 0 => serial.lifetimePoints + amount <= MaxAwarded
                /\ amount < 0 =>
                       getGamification(mocha_gamification).totalPoints >= ItemPrice
                /\ gamification' =
                       [gamification EXCEPT ![c] =
                            [call |-> "updatePoints", amount |-> amount,
                             record |-> updatePoints(mocha_gamification, amount)]]
    /\ lastOp' = "points_get"
    /\ UNCHANGED <<now, tz, store, alarm, popup, nextId, uninterrupted,
                   stopRec, stopAt, swActiveSession, messages, serial>>

\* updateStreak() up to its call of set, from the popup's stop.
updateStreakGet ==
    /\ gamification["popup"] = Null
    /\ gamification' =
           [gamification EXCEPT !["popup"] =
                [call |-> "updateStreak", amount |-> 0,
                 record |-> updateStreak(mocha_gamification, now, MsPerDay)]]
    /\ lastOp' = "streak_get"
    /\ UNCHANGED <<now, tz, store, alarm, popup, nextId, uninterrupted,
                   stopRec, stopAt, swActiveSession, messages, serial>>

\* handleWeeklyReset() up to its call of set; without a stored record it
\* returns.
handleWeeklyResetGet ==
    /\ gamification["worker"] = Null
    /\ IF mocha_gamification # Null
       THEN /\ gamification' =
                   [gamification EXCEPT !["worker"] =
                        [call |-> "handleWeeklyReset", amount |-> 0,
                         record |-> handleWeeklyReset(mocha_gamification)]]
            /\ lastOp' = "reset_get"
       ELSE /\ UNCHANGED gamification
            /\ lastOp' = "reset_return"
    /\ UNCHANGED <<now, tz, store, alarm, popup, nextId, uninterrupted,
                   stopRec, stopAt, swActiveSession, messages, serial>>

\* What one call makes of a record when nothing else runs.
Alone(g, call) ==
    IF call.call = "updatePoints" THEN updatePoints(g, call.amount)
    ELSE IF call.call = "updateStreak" THEN updateStreak(g, now, MsPerDay)
    ELSE handleWeeklyReset(g)

\* The set that ends a call: the held record replaces the stored one.
gamificationSet ==
    /\ \E c \in Contexts :
         /\ gamification[c] # Null
         /\ mocha_gamification' = gamification[c].record
         /\ serial' = Alone(serial, gamification[c])
         /\ gamification' = [gamification EXCEPT ![c] = Null]
    /\ lastOp' = "gamification_set"
    /\ UNCHANGED <<now, tz, mocha_goals, mocha_tasks, mocha_sessions,
                   mocha_active_session, mocha_weekly_progress, mocha_settings,
                   alarm, popup, nextId, uninterrupted, stopRec, stopAt,
                   swActiveSession, messages>>

NextGamification ==
    \/ updatePointsGet
    \/ updateStreakGet
    \/ handleWeeklyResetGet
    \/ gamificationSet

SpecGamification == InitGamification /\ [][NextGamification]_vars

\* C32: however the calls of the popup, the shop page and the service worker
\* interleave, once all of them have written, the stored record holds every
\* award, every deduction and the streak update.
C32_NoLostGamification ==
    (\A c \in Contexts : gamification[c] = Null) =>
        /\ getGamification(mocha_gamification).lifetimePoints = serial.lifetimePoints
        /\ getGamification(mocha_gamification).totalPoints = serial.totalPoints
        /\ getGamification(mocha_gamification).currentStreak = serial.currentStreak
        /\ getGamification(mocha_gamification).lastStudyDate = serial.lastStudyDate

-----------------------------------------------------------------------------
(* The weekly-progress cache, with manual entries made on the progress page *)

NextCache ==
    \/ PopupInit
    \/ PopupClose
    \/ handleSaveManualEntry

SpecCache == InitManual /\ [][NextCache]_vars

\* C33: after a manual entry, and whenever the popup has just loaded, a
\* stored weekly progress of the current week equals calculateWeeklyProgress
\* of the stored sessions, tasks and non-archived goals.
C33_CacheIsCurrent ==
    LET start == getCurrentWeekRange(now, "monday", tz).start
    IN  (/\ lastOp \in {"manual_saved", "init"}
         /\ mocha_weekly_progress # Null
         /\ mocha_weekly_progress.weekStart = start)
        => mocha_weekly_progress =
               calculateWeeklyProgress(mocha_sessions, mocha_tasks,
                                       NotArchived(mocha_goals), start, tz)

-----------------------------------------------------------------------------
(* Points of the stored sessions against the gamification record *)

\* The pointsEarned of all stored sessions.
SessionPointsSum == SumInts([i \in DOMAIN mocha_sessions |->
                                mocha_sessions[i].pointsEarned])

\* C34: without purchases, the points of every stored session have been
\* credited once: lifetimePoints and totalPoints both equal the sum of
\* pointsEarned over the stored sessions.
C34_PointsCreditedOnce ==
    lastOp = "manual_saved" =>
        /\ getGamification(mocha_gamification).lifetimePoints = SessionPointsSum
        /\ getGamification(mocha_gamification).totalPoints = SessionPointsSum

-----------------------------------------------------------------------------
(* The three point counters against each other *)

\* C35: from the default record on, under any calls of updatePoints and any
\* weekly resets, totalPoints and pointsThisWeek never exceed lifetimePoints.
C35_CountersBelowLifetime ==
    LET g == getGamification(mocha_gamification)
    IN  /\ g.totalPoints <= g.lifetimePoints
        /\ g.pointsThisWeek <= g.lifetimePoints

\* Points were awarded, some were spent and the week was reset, and then a
\* deduction larger than the balance came.
C35_Witness ==
    /\ lastOp = "points"
    /\ pointsEarned = -40
    /\ mocha_gamification # Null
    /\ mocha_gamification.totalPoints = 0
    /\ mocha_gamification.pointsThisWeek = 5
    /\ mocha_gamification.lifetimePoints = 40

-----------------------------------------------------------------------------
(* calculateWeeklyProgress: the totals against the entries of the goals *)

\* Durations in seconds: ten seconds, a 25-minute pomodoro, half an hour.
TotalsDurations == {10, 1500, 1800}

TotalsSessions(id) ==
    {WeekSession(id, g, st, d) :
        g \in {"g1", "g2", "g9"},
        st \in {T0, 11 * MsPerDay + MsPerHour \div 2},
        d \in TotalsDurations}

TotalsTasks(id) ==
    {Task(id, g, c) : g \in {"g1", "g2"}, c \in {NoTime, T0}}

InitWeekTotals ==
    /\ now = T0
    /\ tz = 0
    /\ mocha_goals \in WeekGoalLists
    /\ mocha_tasks \in
           {<<>>} \cup {<<a>> : a \in TotalsTasks("t1")}
                  \cup {<<a, b>> : a \in TotalsTasks("t1"), b \in TotalsTasks("t2")}
    /\ mocha_sessions \in
           {<<>>} \cup {<<s>> : s \in TotalsSessions(1)}
                  \cup {<<s, t>> : s \in TotalsSessions(1), t \in TotalsSessions(2)}
    /\ mocha_active_session = Null
    /\ mocha_gamification = createGamification
    /\ mocha_weekly_progress = Null
    /\ mocha_settings = createSettings
    /\ alarm = FALSE
    /\ popup_open = FALSE
    /\ activeSession = Null
    /\ goals = mocha_goals
    /\ tasks = mocha_tasks
    /\ timerInterval = FALSE
    /\ timerShown = NoTimer
    /\ pc = "idle"
    /\ finalDuration = 0
    /\ pointsEarned = 0
    /\ nextId = 1
    /\ uninterrupted = NoTime
    /\ stopRec = Null
    /\ stopAt = NoTime
    /\ lastOp = "none"
    /\ swActiveSession = Null
    /\ gamification = [c \in Contexts |-> Null]
    /\ messages = <<>>
    /\ serial = Null

SpecWeekTotals == InitWeekTotals /\ [][NextWeeklyProgress]_vars

\* The sums over the goal entries of a result.
EntryHours(r) == SumOver([g \in DOMAIN r.goals |-> r.goals[g].hoursCompleted],
                         DOMAIN r.goals)
EntryTasks(r) == SumOver([g \in DOMAIN r.goals |-> r.goals[g].tasksCompleted],
                         DOMAIN r.goals)

\* C36: in every result totalTasks is the sum of tasksCompleted and
\* totalHours is the sum of hoursCompleted over the goal entries.
C36_TotalsAreSums ==
    mocha_weekly_progress # Null =>
        /\ mocha_weekly_progress.totalTasks = EntryTasks(mocha_weekly_progress)
        /\ mocha_weekly_progress.totalHours = EntryHours(mocha_weekly_progress)

\* C36 as the code has it: totalTasks is the sum of tasksCompleted;
\* totalHours is the hours of all counted sessions together, rounded once to
\* hundredths, which is within half a hundredth per rounded figure of the sum
\* of hoursCompleted over the goal entries.
C36_TotalsRoundedOnce ==
    mocha_weekly_progress # Null =>
        LET r == mocha_weekly_progress
            counted == {i \in DOMAIN mocha_sessions :
                          /\ mocha_sessions[i].goalId \in GoalIds(goals)
                          /\ IsoDate(mocha_sessions[i].startTime) >= r.weekStart
                          /\ IsoDate(mocha_sessions[i].startTime) <= r.weekEnd}
            seconds == SumOver([i \in counted |-> mocha_sessions[i].duration],
                               counted)
            diff == r.totalHours - EntryHours(r)
        IN  /\ r.totalTasks = EntryTasks(r)
            /\ r.totalHours = RoundDiv(seconds * 100, secondsPerHour)
            /\ 2 * diff <= Cardinality(DOMAIN r.goals) + 1
            /\ -2 * diff <= Cardinality(DOMAIN r.goals) + 1

\* Two pomodoros of 25 minutes, one for each goal: 0.42 h and 0.42 h in the
\* entries, 0.83 h in the total.
C36_Witness ==
    /\ lastOp = "weekly_progress"
    /\ mocha_weekly_progress.goals = [g \in {"g1", "g2"} |->
                                         [hoursCompleted |-> 42,
                                          tasksCompleted |-> 0]]
    /\ mocha_weekly_progress.totalHours = 83

-----------------------------------------------------------------------------
(* The session timer alarm, with SESSION_STOPPED as a message of its own *)

\* handleStopSession at `await clearActiveSession()`: the stored session is
\* removed.  The popup can be closed before the handler goes on.
StopClearStored ==
    /\ popup_open /\ pc = "clear"
    /\ mocha_active_session' = Null
    /\ uninterrupted' = NoTime
    /\ pc' = "notify"
    /\ UNCHANGED <<now, tz, mocha_goals, mocha_tasks, mocha_sessions,
                   mocha_gamification, mocha_weekly_progress, mocha_settings,
                   alarm, popup_open, activeSession, goals, tasks, timerInterval,
                   timerShown, finalDuration, pointsEarned, nextId, stopRec,
                   stopAt, lastOp, running>>

\* activeSession = null; chrome.runtime.sendMessage({type: 'SESSION_STOPPED'}).
StopNotify ==
    /\ popup_open /\ pc = "notify"
    /\ Len(messages) < MaxMessages
    /\ activeSession' = Null
    /\ messages' = Append(messages, [type |-> "SESSION_STOPPED"])
    /\ pc' = "reload"
    /\ UNCHANGED <<now, tz, store, alarm, popup_open, goals, tasks,
                   timerInterval, timerShown, finalDuration, pointsEarned,
                   nextId, hist, swActiveSession, gamification, serial>>

\* The service worker's handleMessage(message): SESSION_STARTED starts the
\* session timer, SESSION_STOPPED stops it.
handleMessage ==
    /\ messages # <<>>
    /\ Head(messages).type \in {"SESSION_STARTED", "SESSION_STOPPED"}
    /\ alarm' = (Head(messages).type = "SESSION_STARTED")
    /\ messages' = Tail(messages)
    /\ UNCHANGED <<now, tz, store, popup, nextId, hist, swActiveSession,
                   gamification, serial>>

NextAlarm ==
    \/ Advance
    \/ PopupInit
    \/ PopupClose
    \/ handleBeginSession
    \/ handleStopSession
    \/ StopConfirmed
    \/ StopSaveSession
    \/ StopUpdatePoints
    \/ StopUpdateStreak
    \/ StopClearStored
    \/ StopNotify
    \/ StopReload
    \/ handleMessage
    \/ initialize
    \/ handleSessionTimerTick

\* A scheduled alarm keeps firing, and a message that was sent is received.
SpecAlarm ==
    /\ Init
    /\ [][NextAlarm]_vars
    /\ WF_vars(handleSessionTimerTick)
    /\ WF_vars(handleMessage)

\* C37: when the service worker initializes while a session is stored, the
\* alarm is scheduled; and an alarm that is scheduled while no session is
\* stored is cleared again, unless a new session begins first.
C37_AlarmTracksSession ==
    /\ [][(initialize /\ mocha_active_session # Null) => alarm']_vars
    /\ (mocha_active_session = Null /\ alarm)
           ~> (~alarm \/ mocha_active_session # Null)

\* A session was stopped and stored, the popup was closed before it could
\* send SESSION_STOPPED, and the alarm is still scheduled.
C37_Witness ==
    /\ mocha_active_session = Null
    /\ mocha_sessions # <<>>
    /\ alarm
    /\ ~popup_open
    /\ messages = <<>>

-----------------------------------------------------------------------------
(* The two copies of calculateElapsedTime on the same record *)

\* Offsets from startTime in ms: of pausedAt, of the paused time so far and
\* of the current time.
BothPausedAts == {2000, 3000, 3816, 4816}
BothPausedDurations == {0, 1000, 1816}
BothNows == {2000, 3000, 3816, 4816, 5000}

\* Records of a session begun at T0, running or paused, whose paused time
\* fits into the time before pausedAt.
BothRecords ==
    {[createActiveSession("g1", NoTask, "free", T0)
        EXCEPT !.totalPausedDuration = d] : d \in BothPausedDurations}
    \cup
    {[createActiveSession("g1", NoTask, "free", T0)
        EXCEPT !.pausedAt = T0 + p, !.totalPausedDuration = d] :
     p \in BothPausedAts,
     d \in BothPausedDurations}

InitElapsedBoth ==
    /\ now \in {T0 + n : n \in BothNows}
    /\ tz \in TimeZones
    /\ mocha_goals = <<Goal("g1", FALSE)>>
    /\ mocha_tasks = <<>>
    /\ mocha_sessions = <<>>
    /\ mocha_active_session \in
           {r \in BothRecords :
               /\ r.totalPausedDuration <= now - r.startTime
               /\ r.pausedAt # NoTime =>
                      /\ r.pausedAt <= now
                      /\ r.totalPausedDuration <= r.pausedAt - r.startTime}
    /\ mocha_gamification = createGamification
    /\ mocha_weekly_progress = Null
    /\ mocha_settings = createSettings
    /\ alarm = TRUE
    /\ popup_open = TRUE
    /\ activeSession = mocha_active_session
    /\ goals = mocha_goals
    /\ tasks = <<>>
    /\ timerInterval = TRUE
    /\ timerShown = NoTimer
    /\ pc = "idle"
    /\ finalDuration = 0
    /\ pointsEarned = 0
    /\ nextId = 1
    /\ uninterrupted = NoTime
    /\ stopRec = Null
    /\ stopAt = NoTime
    /\ lastOp = "none"
    /\ swActiveSession = Null
    /\ gamification = [c \in Contexts |-> Null]
    /\ messages = <<>>
    /\ serial = Null

SpecElapsedBoth == InitElapsedBoth /\ [][NextElapsed]_vars

\* C38: on every session record, running or paused, and at every current
\* time not before pausedAt, the service worker's calculateElapsedTime gives
\* the seconds that the one of calculations.js gives.
C38_SameElapsed ==
    lastOp = "elapsed" =>
        swCalculateElapsedTime(mocha_active_session, now) = timerShown

-----------------------------------------------------------------------------
(* handleIdleStateChange per idle state, run without interleaving *)

\* A faulty variant that resumes an auto-paused session when the user is
\* active again.
idleStateChange_resumesOnActive(settings, as, state, t) ==
    IF ~settings.idleDetection.enabled \/ as = Null THEN as
    ELSE IF state \in {"idle", "locked"}
    THEN IF as.pausedAt = NoTime THEN AutoPauseRecord(as, t) ELSE as
    ELSE IF as.pausedAt # NoTime /\ as.autoPaused
    THEN [ResumeRecord(as, t) EXCEPT !.autoPaused = FALSE]
    ELSE as

\* The stored session handleIdleStateChange(state) leaves at Date.now() = t.
\* The active branch only shows a notification.
idleStateChange(settings, as, state, t) ==
    IF ~settings.idleDetection.enabled \/ as = Null THEN as
    ELSE IF state \in {"idle", "locked"}
    THEN IF as.pausedAt = NoTime THEN AutoPauseRecord(as, t) ELSE as
    ELSE as

\* chrome.idle reports a state; the handler runs to its end, and the popup's
\* listener takes the record of SESSION_AUTO_PAUSED.  lastOp keeps the state.
IdleStateChanged ==
    /\ \E state \in IdleStates :
         /\ mocha_active_session' =
                idleStateChange(mocha_settings, mocha_active_session, state, now)
         /\ lastOp' = state
    /\ activeSession' =
           IF popup_open /\ mocha_active_session' # mocha_active_session
           THEN mocha_active_session'
           ELSE activeSession
    /\ UNCHANGED <<now, tz, mocha_goals, mocha_tasks, mocha_sessions,
                   mocha_gamification, mocha_weekly_progress, mocha_settings,
                   alarm, popup_open, goals, tasks, timerInterval, timerShown,
                   pc, finalDuration, pointsEarned, nextId, uninterrupted,
                   stopRec, stopAt, running>>

NextIdle ==
    \/ RaceAdvance
    \/ PopupInit
    \/ handlePauseSession
    \/ IdleStateChanged

SpecIdle == InitRace /\ [][NextIdle]_vars

====
